---- MODULE Spec2Model ----
(***************************************************************************)
(* Model of the portable CLI core engine (cli.c): the per-byte processing  *)
(* loop of cli_update with its escape-sequence recognizer, the edit        *)
(* buffer, the command history, tab completion and the tokenizer and       *)
(* dispatcher.  Bytes are their ASCII codes; C strings are sequences of    *)
(* non-zero bytes; cli_buffer is the fixed array with its stale bytes.     *)
(***************************************************************************)
EXTENDS Integers, Sequences, FiniteSets, TLC

\* ---------------------------------------------------------------------------
\* Program constants
\* ---------------------------------------------------------------------------
CLI_BUFFER_SIZE == 128

CLI_HISTORY_SIZE == 10

CLI_MAX_ARGS == 8

MAX_MATCHES == 10

NUL == 0

BS == 8

TAB == 9

LF == 10

CR == 13

ESC == 27

SP == 32

DEL == 127

UP_A == 65

DOWN_B == 66

LBRACKET == 91

\* ---------------------------------------------------------------------------
\* Bounds of the exploration (not program constants)
\* ---------------------------------------------------------------------------
\* Number of input bytes explored after a scenario's prefix.
MaxInput == 3

\* Largest size of the DMA ring buffer.
MaxRing == 3

\* ---------------------------------------------------------------------------
\* String literals of the source
\* ---------------------------------------------------------------------------
STR_PROMPT == <<62, 32>>

STR_ERASE == <<8, 32, 8>>

STR_CRLF == <<13, 10>>

STR_TWO_SPACES == <<32, 32>>

STR_UNKNOWN == <<85, 110, 107, 110, 111, 119, 110, 32, 99, 111, 109, 109, 97, 110, 100, 58, 32>>

STR_HINT == <<13, 10, 84, 121, 112, 101, 32, 39, 104, 101, 108, 112, 39, 32, 102, 111, 114, 32, 97, 118, 97, 105, 108, 97, 98, 108, 101, 32, 99, 111, 109, 109, 97, 110, 100, 115, 46, 13, 10>>

STR_BANNER == <<13, 10>>
    \o <<61, 61, 61, 61, 61, 61, 61, 61, 61, 61, 61, 61, 61, 61, 61, 61, 61, 61, 61, 61, 61, 61, 61, 61, 61, 61, 61, 61, 61, 61, 61, 61, 61, 61, 61, 61, 61, 61, 61, 61, 13, 10>>
    \o <<32, 32, 83, 84, 77, 51, 50, 32, 67, 76, 73, 32, 68, 101, 98, 117, 103, 32, 83, 121, 115, 116, 101, 109, 32, 118, 50, 46, 48, 13, 10>>
    \o <<61, 61, 61, 61, 61, 61, 61, 61, 61, 61, 61, 61, 61, 61, 61, 61, 61, 61, 61, 61, 61, 61, 61, 61, 61, 61, 61, 61, 61, 61, 61, 61, 61, 61, 61, 61, 61, 61, 61, 61, 13, 10>>
    \o <<84, 121, 112, 101, 32, 39, 104, 101, 108, 112, 39, 32, 102, 111, 114, 32, 99, 111, 109, 109, 97, 110, 100, 115, 13, 10>>
    \o <<65, 114, 114, 111, 119, 32, 107, 101, 121, 115, 58, 32, 104, 105, 115, 116, 111, 114, 121, 32, 124, 32, 84, 97, 98, 58, 32, 99, 111, 109, 112, 108, 101, 116, 105, 111, 110, 13, 10>>

\* ---------------------------------------------------------------------------
\* State
\* ---------------------------------------------------------------------------
VARIABLES
    cli_buffer,           \* [0..CLI_BUFFER_SIZE-1 -> byte], stale bytes kept
    cli_index,            \* uint16_t
    cli_history,          \* [0..CLI_HISTORY_SIZE-1 -> C string]
    history_count,
    current_history_pos,  \* -1: not browsing
    arrow_state,          \* "NORMAL" | "ESC_RECEIVED" | "BRACKET_RECEIVED"
    cli_commands,         \* sequence of [name, handler]; cli_num_commands = Len
    cli_putchar_fn,       \* "NULL" or the installed sink
    cli_getchar_fn,       \* "NULL" or the installed source
    out,                  \* bytes handed to cli_putchar_fn by the last step
    calls,                \* handler invocations made by the last step
    events,               \* observer: what the last step recorded or invoked, and
                          \* how many bytes it had written by then
    ub,                   \* an out-of-bounds access of cli_buffer has happened
    last,                 \* observer: the byte last processed and the state it met
    esc_obs,              \* observer: the escape sequence in progress since NORMAL
    run_ok,               \* observer: only literals since the line was empty in NORMAL
    run_in,               \* observer: those literals
    run_out,              \* observer: the output they produced
    inputs,               \* environment: the bytes the byte source may deliver
    left,                 \* environment: input bytes still to be delivered
    rx,                   \* observer: the bytes between the read index and the
                          \* DMA's write position, oldest first
    pc,                   \* "host": outside cli_update, "cli_update": inside its loop
    init_result,          \* observer: "none" | "rejected" | "accepted", the last cli_init
    rx_buffer,            \* hardware: the receive buffer, [0..size-1 -> byte],
                          \* written by the DMA; <<>> where no DMA is modelled
    dma_counter,          \* hardware: the DMA's count of free slots, size down to 1
    cli_dma_rx_buffer,    \* "NULL" or "rx_buffer"
    cli_dma_buffer_size,  \* uint16_t
    cli_dma_counter,      \* "NULL" or "dma_counter"
    cli_last_processed,   \* uint16_t, the read index
    char_is_signed,       \* build: whether plain char is a signed type
    current_pos,          \* local of cli_uart_getchar_impl, -1 outside a call
    ret,                  \* what the last call of cli_uart_getchar_impl returned
    received,             \* observer: the bytes the DMA has stored, in order
    delivered,            \* observer: the values returned for consumed slots
    overrun               \* observer: the writer got a whole buffer ahead

vars == <<cli_buffer, cli_index, cli_history, history_count, current_history_pos,
          arrow_state, cli_commands, cli_putchar_fn, cli_getchar_fn, out, calls,
          events, ub, last, esc_obs, run_ok, run_in, run_out, inputs, left,
          rx, pc, init_result, rx_buffer, dma_counter, cli_dma_rx_buffer,
          cli_dma_buffer_size, cli_dma_counter, cli_last_processed, char_is_signed, current_pos, ret,
          received, delivered, overrun>>

\* The variables of the DMA ring reader (cli_impl.c) and the ring it reads.
ring == <<rx_buffer, dma_counter, cli_dma_rx_buffer, cli_dma_buffer_size,
          cli_dma_counter, cli_last_processed, char_is_signed, current_pos, ret,
          received, delivered, overrun>>

\* The session state as one value, so that the handlers are operators on it.
St == [buf |-> cli_buffer, idx |-> cli_index, hist |-> cli_history,
       count |-> history_count, pos |-> current_history_pos,
       arrow |-> arrow_state, cmds |-> cli_commands,
       putc |-> cli_putchar_fn, getc |-> cli_getchar_fn,
       out |-> out, calls |-> calls, events |-> events, ub |-> ub,
       last |-> last, esc_obs |-> esc_obs, run_ok |-> run_ok, run_in |-> run_in, run_out |-> run_out]

BufIdx == 0 .. (CLI_BUFFER_SIZE - 1)

ZeroBuffer == [i \in BufIdx |-> 0]

\* ---------------------------------------------------------------------------
\* C string helpers
\* ---------------------------------------------------------------------------
\* Some terminator lies inside the array from index `from` on.
HasNul(buf, from) == \E i \in BufIdx : i >= from /\ buf[i] = 0

\* strlen(&buf[from]), defined when HasNul(buf, from).
StrLenAt(buf, from) ==
    CHOOSE n \in 0 .. (CLI_BUFFER_SIZE - 1 - from) :
        /\ buf[from + n] = 0
        /\ \A j \in 0 .. (n - 1) : buf[from + j] # 0

\* The C string stored at &buf[from].
CStrAt(buf, from) == [k \in 1 .. StrLenAt(buf, from) |-> buf[from + k - 1]]

\* The first n bytes of the array (n <= CLI_BUFFER_SIZE).
Content(buf, n) == [k \in 1 .. n |-> buf[k - 1]]

\* A byte sequence read as a C string: cut at its first NUL.
CutAtNul(w) ==
    IF \E k \in 1 .. Len(w) : w[k] = 0
    THEN SubSeq(w, 1, (CHOOSE k \in 1 .. Len(w) :
                          w[k] = 0 /\ \A j \in 1 .. (k - 1) : w[j] # 0) - 1)
    ELSE w

\* strcpy(&buf[at], str): the bytes of str and the terminator; needs
\* at + Len(str) <= CLI_BUFFER_SIZE - 1.
StrCpyAt(buf, at, str) ==
    [i \in BufIdx |->
        IF i >= at /\ i < at + Len(str) THEN str[i - at + 1]
        ELSE IF i = at + Len(str) THEN 0
        ELSE buf[i]]

\* Mutant: letters are compared without regard to case.
IsPrefix_NoCase(prefix, name) ==
    LET lower(c) == IF c >= 65 /\ c <= 90 THEN c + 32 ELSE c
    IN /\ Len(prefix) <= Len(name)
       /\ \A k \in 1 .. Len(prefix) : lower(prefix[k]) = lower(name[k])

\* strncmp(prefix, name, strlen(prefix)) == 0
IsPrefix(prefix, name) ==
    /\ Len(prefix) <= Len(name)
    /\ \A k \in 1 .. Len(prefix) : prefix[k] = name[k]

Spaces(n) == [k \in 1 .. n |-> 32]

\* ---------------------------------------------------------------------------
\* Output helpers
\* ---------------------------------------------------------------------------
\* One call of cli_putchar_fn under the `!= NULL` guard.
PutChar(s, c) ==
    IF s.putc = "NULL" THEN s ELSE [s EXCEPT !.out = Append(@, c)]

cli_puts(s, str) ==
    IF s.putc = "NULL" THEN s ELSE [s EXCEPT !.out = @ \o str]

cli_prompt(s) == cli_puts(s, STR_PROMPT)

cli_clear_line(s) ==
    IF s.putc = "NULL" THEN s
    ELSE [s EXCEPT !.out = @ \o <<13>> \o STR_PROMPT \o Spaces(CLI_BUFFER_SIZE)
                             \o <<13>> \o STR_PROMPT]

\* ---------------------------------------------------------------------------
\* History
\* ---------------------------------------------------------------------------
\* Mutant: the comparison with the last command is missing.
cli_add_to_history_NoDedup(s, cmd) ==
    IF Len(cmd) = 0 THEN s
    ELSE LET full == s.count >= CLI_HISTORY_SIZE
             shifted == IF full
                        THEN [i \in 0 .. (CLI_HISTORY_SIZE - 1) |->
                                 IF i < CLI_HISTORY_SIZE - 1 THEN s.hist[i + 1]
                                 ELSE s.hist[i]]
                        ELSE s.hist
             cnt == IF full THEN CLI_HISTORY_SIZE - 1 ELSE s.count
         IN [s EXCEPT !.hist = [shifted EXCEPT ![cnt] = cmd],
                      !.count = cnt + 1,
                      !.pos = -1,
                      !.events = Append(@, [kind |-> "record", at |-> Len(s.out)])]

\* Mutant: a full history is not shifted, the newest entry is overwritten.
cli_add_to_history_NoShift(s, cmd) ==
    IF Len(cmd) = 0 THEN s
    ELSE IF s.count > 0 /\ s.hist[s.count - 1] = cmd THEN s
    ELSE LET cnt == IF s.count >= CLI_HISTORY_SIZE THEN CLI_HISTORY_SIZE - 1 ELSE s.count
         IN [s EXCEPT !.hist = [s.hist EXCEPT ![cnt] = cmd],
                      !.count = cnt + 1,
                      !.pos = -1,
                      !.events = Append(@, [kind |-> "record", at |-> Len(s.out)])]

\* Mutant: an empty line is recorded like any other.
cli_add_to_history_RecordEmpty(s, cmd) ==
    IF s.count > 0 /\ s.hist[s.count - 1] = cmd THEN s
    ELSE LET full == s.count >= CLI_HISTORY_SIZE
             shifted == IF full
                        THEN [i \in 0 .. (CLI_HISTORY_SIZE - 1) |->
                                 IF i < CLI_HISTORY_SIZE - 1 THEN s.hist[i + 1]
                                 ELSE s.hist[i]]
                        ELSE s.hist
             cnt == IF full THEN CLI_HISTORY_SIZE - 1 ELSE s.count
         IN [s EXCEPT !.hist = [shifted EXCEPT ![cnt] = cmd],
                      !.count = cnt + 1,
                      !.pos = -1,
                      !.events = Append(@, [kind |-> "record", at |-> Len(s.out)])]

cli_add_to_history(s, cmd) ==
    IF Len(cmd) = 0 THEN s
    ELSE IF s.count > 0 /\ s.hist[s.count - 1] = cmd THEN s
    ELSE LET full == s.count >= CLI_HISTORY_SIZE
             shifted == IF full
                        THEN [i \in 0 .. (CLI_HISTORY_SIZE - 1) |->
                                 IF i < CLI_HISTORY_SIZE - 1 THEN s.hist[i + 1]
                                 ELSE s.hist[i]]
                        ELSE s.hist
             cnt == IF full THEN CLI_HISTORY_SIZE - 1 ELSE s.count
         IN [s EXCEPT !.hist = [shifted EXCEPT ![cnt] = cmd],
                      !.count = cnt + 1,
                      !.pos = -1,
                      !.events = Append(@, [kind |-> "record", at |-> Len(s.out)])]

\* The tail of cli_load_history: clear the line, copy the entry, echo it.
LoadEntry(s) ==
    LET e == s.hist[s.pos]
        s1 == cli_clear_line(s)
    IN IF Len(e) > CLI_BUFFER_SIZE - 1 THEN [s1 EXCEPT !.ub = TRUE]
       ELSE cli_puts([s1 EXCEPT !.buf = StrCpyAt(@, 0, e), !.idx = Len(e)], e)

\* Mutant: Down past the newest entry leaves browsing but keeps the line.
cli_load_history_KeepLine(s, direction) ==
    IF s.count = 0 THEN s
    ELSE IF direction > 0
    THEN LoadEntry([s EXCEPT !.pos = IF s.pos = -1 THEN s.count - 1
                                     ELSE IF s.pos > 0 THEN s.pos - 1
                                     ELSE s.pos])
    ELSE IF s.pos = -1 THEN s
    ELSE IF s.pos + 1 >= s.count
    THEN cli_clear_line([s EXCEPT !.pos = -1])
    ELSE LoadEntry([s EXCEPT !.pos = s.pos + 1])

\* Mutant: Up at the oldest entry wraps around to the newest one.
cli_load_history_Wrap(s, direction) ==
    IF s.count = 0 THEN s
    ELSE IF direction > 0
    THEN LoadEntry([s EXCEPT !.pos = IF s.pos = -1 THEN s.count - 1
                                     ELSE IF s.pos > 0 THEN s.pos - 1
                                     ELSE s.count - 1])
    ELSE IF s.pos = -1 THEN s
    ELSE IF s.pos + 1 >= s.count
    THEN [cli_clear_line([s EXCEPT !.pos = -1]) EXCEPT !.idx = 0, !.buf = ZeroBuffer]
    ELSE LoadEntry([s EXCEPT !.pos = s.pos + 1])

\* Mutant: Down at the newest entry empties the line but lets the cursor step
\* past the last filled slot.
cli_load_history_PastNewest(s, direction) ==
    IF s.count = 0 THEN s
    ELSE IF direction > 0
    THEN LoadEntry([s EXCEPT !.pos = IF s.pos = -1 THEN s.count - 1
                                     ELSE IF s.pos > 0 THEN s.pos - 1
                                     ELSE s.pos])
    ELSE IF s.pos = -1 THEN s
    ELSE IF s.pos + 1 >= s.count
    THEN [cli_clear_line([s EXCEPT !.pos = s.count]) EXCEPT !.idx = 0, !.buf = ZeroBuffer]
    ELSE LoadEntry([s EXCEPT !.pos = s.pos + 1])

cli_load_history(s, direction) ==
    IF s.count = 0 THEN s
    ELSE IF direction > 0
    THEN LoadEntry([s EXCEPT !.pos = IF s.pos = -1 THEN s.count - 1
                                     ELSE IF s.pos > 0 THEN s.pos - 1
                                     ELSE s.pos])
    ELSE IF s.pos = -1 THEN s
    ELSE IF s.pos + 1 >= s.count
    THEN [cli_clear_line([s EXCEPT !.pos = -1]) EXCEPT !.idx = 0, !.buf = ZeroBuffer]
    ELSE LoadEntry([s EXCEPT !.pos = s.pos + 1])

\* ---------------------------------------------------------------------------
\* Completion
\* ---------------------------------------------------------------------------
\* strcpy(matches[match_count], name) as the rows read afterwards: rows are
\* CLI_BUFFER_SIZE bytes apart in one array, so an earlier row whose string
\* reaches the new row is cut there and runs on into the new name.
StrCpyRow(rows, name) ==
    LET k == Len(rows)
    IN [j \in 1 .. (k + 1) |->
          IF j = k + 1 THEN name
          ELSE IF Len(rows[j]) >= CLI_BUFFER_SIZE * (k + 1 - j)
          THEN SubSeq(rows[j], 1, CLI_BUFFER_SIZE * (k + 1 - j)) \o name
          ELSE rows[j]]

RECURSIVE FindFrom(_, _, _, _, _)
\* The loop of cli_find_matches from table position i; acc.matches are the
\* rows filled so far, acc.ub tells that a strcpy left the array of
\* max_matches rows.
FindFrom(cmds, prefix, max_matches, i, acc) ==
    IF i > Len(cmds) \/ Len(acc.matches) >= max_matches THEN acc
    ELSE FindFrom(cmds, prefix, max_matches, i + 1,
                  IF IsPrefix(prefix, cmds[i].name)
                  THEN [matches |-> StrCpyRow(acc.matches, cmds[i].name),
                        ub |-> \/ acc.ub
                               \/ CLI_BUFFER_SIZE * Len(acc.matches) + Len(cmds[i].name)
                                     >= CLI_BUFFER_SIZE * max_matches]
                  ELSE acc)

\* The rows cli_find_matches leaves in matches[][] (match_count is their
\* number) and whether it wrote outside the array.
cli_find_matches(cmds, prefix, max_matches) ==
    IF Len(prefix) = 0 THEN [matches |-> <<>>, ub |-> FALSE]
    ELSE FindFrom(cmds, prefix, max_matches, 1, [matches |-> <<>>, ub |-> FALSE])

\* Start of the current word: scan back from the cursor to the last space.
WordStart(buf, idx) ==
    IF \E i \in 0 .. (idx - 1) : buf[i] = 32
    THEN 1 + (CHOOSE i \in 0 .. (idx - 1) :
                 buf[i] = 32 /\ \A j \in (i + 1) .. (idx - 1) : buf[j] # 32)
    ELSE 0

\* Length of the common prefix of a and b, looking at no more than cap bytes.
RECURSIVE CommonWith(_, _, _, _)
CommonWith(a, b, cap, j) ==
    IF j < cap /\ j < Len(b) /\ a[j + 1] = b[j + 1]
    THEN CommonWith(a, b, cap, j + 1)
    ELSE j

RECURSIVE CommonLenFrom(_, _, _)
\* The common-prefix loop over matches[i..], common_len so far.
CommonLenFrom(matches, i, common_len) ==
    IF i > Len(matches) THEN common_len
    ELSE CommonLenFrom(matches, i + 1, CommonWith(matches[1], matches[i], common_len, 0))

\* Mutant: the first match is taken for the common prefix.
CommonLen_FirstMatch(matches) == Len(matches[1])

CommonLen(matches) == CommonLenFrom(matches, 2, Len(matches[1]))

\* str written n times.
Repeat(str, n) == [k \in 1 .. (n * Len(str)) |-> str[((k - 1) % Len(str)) + 1]]

RECURSIVE JoinMatches(_, _)
\* matches[i..] each followed by two spaces, except the last.
JoinMatches(matches, i) ==
    IF i > Len(matches) THEN <<>>
    ELSE matches[i] \o (IF i < Len(matches) THEN STR_TWO_SPACES ELSE <<>>)
         \o JoinMatches(matches, i + 1)

\* Mutant: no space follows the completed name.
CompleteSingle_NoSpace(s, word_start, current_word, match) ==
    IF current_word = match THEN s
    ELSE IF word_start + Len(match) > CLI_BUFFER_SIZE - 1 THEN [s EXCEPT !.ub = TRUE]
    ELSE cli_puts([cli_puts(s, Repeat(STR_ERASE, s.idx - word_start))
                      EXCEPT !.buf = StrCpyAt(s.buf, word_start, match),
                             !.idx = word_start + Len(match)],
                  match)

\* Mutant: the typed word is kept and only the missing suffix is written.
CompleteSingle_SuffixEcho(s, word_start, current_word, match) ==
    IF current_word = match THEN s
    ELSE IF word_start + Len(match) > CLI_BUFFER_SIZE - 1 THEN [s EXCEPT !.ub = TRUE]
    ELSE LET buf1 == StrCpyAt(s.buf, word_start, match)
             idx1 == word_start + Len(match)
             s2 == cli_puts([s EXCEPT !.buf = buf1, !.idx = idx1],
                            SubSeq(match, Len(current_word) + 1, Len(match)))
         IN IF idx1 = StrLenAt(buf1, 0)
            THEN PutChar([s2 EXCEPT !.buf = [buf1 EXCEPT ![idx1] = 32],
                                    !.idx = idx1 + 1], 32)
            ELSE s2

\* Mutant: the "already complete" test is missing.
CompleteSingle_NoExactTest(s, word_start, current_word, match) ==
    IF word_start + Len(match) > CLI_BUFFER_SIZE - 1 THEN [s EXCEPT !.ub = TRUE]
    ELSE LET s1 == cli_puts(s, Repeat(STR_ERASE, s.idx - word_start))
             buf1 == StrCpyAt(s.buf, word_start, match)
             idx1 == word_start + Len(match)
             s2 == cli_puts([s1 EXCEPT !.buf = buf1, !.idx = idx1], match)
         IN IF idx1 = StrLenAt(buf1, 0)
            THEN PutChar([s2 EXCEPT !.buf = [buf1 EXCEPT ![idx1] = 32],
                                    !.idx = idx1 + 1], 32)
            ELSE s2

\* The single-match branch of cli_tab_complete.
CompleteSingle(s, word_start, current_word, match) ==
    IF current_word = match THEN s
    ELSE IF word_start + Len(match) > CLI_BUFFER_SIZE - 1 THEN [s EXCEPT !.ub = TRUE]
    ELSE LET s1 == cli_puts(s, Repeat(STR_ERASE, s.idx - word_start))
             buf1 == StrCpyAt(s.buf, word_start, match)
             idx1 == word_start + Len(match)
             s2 == cli_puts([s1 EXCEPT !.buf = buf1, !.idx = idx1], match)
         IN IF idx1 = StrLenAt(buf1, 0)
            THEN PutChar([s2 EXCEPT !.buf = [buf1 EXCEPT ![idx1] = 32],
                                    !.idx = idx1 + 1], 32)
            ELSE s2

\* The multiple-match branch of cli_tab_complete.
CompleteMulti(s, word_start, word_len, matches) ==
    LET s1 == cli_puts(cli_puts(cli_puts(s, STR_CRLF), JoinMatches(matches, 1)), STR_CRLF)
        common_len == CommonLen(matches)
        s2 == IF common_len > word_len
              THEN [s1 EXCEPT
                      !.buf = [i \in BufIdx |->
                                 IF i >= word_start /\ i < word_start + common_len
                                 THEN matches[1][i - word_start + 1]
                                 ELSE IF i = word_start + common_len THEN 0
                                 ELSE IF i >= word_start /\ i < s.idx THEN 0
                                 ELSE s.buf[i]],
                      !.idx = word_start + common_len]
              ELSE s1
        s3 == cli_prompt(s2)
    IN IF common_len > word_len /\ word_start + common_len > CLI_BUFFER_SIZE - 1
       THEN [s1 EXCEPT !.ub = TRUE]
       ELSE IF HasNul(s3.buf, 0) THEN cli_puts(s3, CStrAt(s3.buf, 0))
       ELSE [s3 EXCEPT !.ub = TRUE]

cli_tab_complete(s) ==
    IF s.idx = 0 THEN s
    ELSE LET word_start == WordStart(s.buf, s.idx)
             word_len == s.idx - word_start
             current_word ==
                 CutAtNul([k \in 1 .. word_len |-> s.buf[word_start + k - 1]])
         IN IF word_len > CLI_BUFFER_SIZE - 1 THEN [s EXCEPT !.ub = TRUE]
            ELSE IF word_start > 0 THEN s
            ELSE LET found == cli_find_matches(s.cmds, current_word, MAX_MATCHES)
                     matches == found.matches
                 IN IF found.ub THEN [s EXCEPT !.ub = TRUE]
                    ELSE IF Len(matches) = 0 THEN s
                    ELSE IF Len(matches) = 1
                    THEN CompleteSingle(s, word_start, current_word, matches[1])
                    ELSE CompleteMulti(s, word_start, word_len, matches)

\* ---------------------------------------------------------------------------
\* Tokenizer and dispatcher
\* ---------------------------------------------------------------------------
\* Mutant: only one delimiter is skipped, so a run of delimiters yields
\* empty tokens.
SkipSpaces_One(w) == IF w # <<>> /\ w[1] = 32 THEN Tail(w) ELSE w

\* w without its leading run of delimiters.
SkipSpaces(w) ==
    IF \E k \in 1 .. Len(w) : w[k] # 32
    THEN SubSeq(w, CHOOSE k \in 1 .. Len(w) :
                      w[k] # 32 /\ \A j \in 1 .. (k - 1) : w[j] = 32,
                Len(w))
    ELSE <<>>

\* Length of the run of non-delimiter bytes at the head of w.
TokenLen(w) ==
    IF \E k \in 1 .. Len(w) : w[k] = 32
    THEN (CHOOSE k \in 1 .. Len(w) : w[k] = 32 /\ \A j \in 1 .. (k - 1) : w[j] # 32) - 1
    ELSE Len(w)

RECURSIVE StrTokLoop(_, _)
\* The strtok loop: tokens of w appended to argv while argc < CLI_MAX_ARGS.
StrTokLoop(w, argv) ==
    LET rest == SkipSpaces(w)
        n == TokenLen(rest)
    IN IF rest = <<>> \/ Len(argv) >= CLI_MAX_ARGS THEN argv
       ELSE StrTokLoop(SubSeq(rest, n + 1, Len(rest)), Append(argv, SubSeq(rest, 1, n)))

RECURSIVE StrTokAll(_, _)
\* The strtok loop without the argc test.
StrTokAll(w, argv) ==
    LET rest == SkipSpaces(w)
        n == TokenLen(rest)
    IN IF rest = <<>> THEN argv
       ELSE StrTokAll(SubSeq(rest, n + 1, Len(rest)), Append(argv, SubSeq(rest, 1, n)))

\* Mutant: every token of the line is handed over.
Tokenize_Uncapped(cmd) == StrTokAll(cmd, <<>>)

Tokenize(cmd) == StrTokLoop(cmd, <<>>)

\* Mutant: strncmp over the token's length, so a prefix of a name finds it.
FindCommand_Prefix(cmds, name) ==
    IF \E i \in 1 .. Len(cmds) : IsPrefix(name, cmds[i].name)
    THEN CHOOSE i \in 1 .. Len(cmds) :
            IsPrefix(name, cmds[i].name) /\ \A j \in 1 .. (i - 1) : ~IsPrefix(name, cmds[j].name)
    ELSE 0

\* Index of the first table entry named name, 0 when there is none.
FindCommand(cmds, name) ==
    IF \E i \in 1 .. Len(cmds) : cmds[i].name = name
    THEN CHOOSE i \in 1 .. Len(cmds) :
            cmds[i].name = name /\ \A j \in 1 .. (i - 1) : cmds[j].name # name
    ELSE 0

\* Mutant: the notice names the whole line instead of argv[0].
cli_parse_and_execute_WholeLine(s, cmd) ==
    IF Len(cmd) = 0 THEN s
    ELSE LET argv == Tokenize(cmd)
             i == IF Len(argv) = 0 THEN 0 ELSE FindCommand(s.cmds, argv[1])
         IN IF Len(argv) = 0 THEN s
            ELSE IF i > 0
            THEN IF s.cmds[i].handler # "NULL"
                 THEN [s EXCEPT !.calls = Append(@, [entry |-> i,
                                                     handler |-> s.cmds[i].handler,
                                                     argv |-> argv]),
                                !.events = Append(@, [kind |-> "call", at |-> Len(s.out)])]
                 ELSE s
            ELSE cli_puts(cli_puts(cli_puts(s, STR_UNKNOWN), cmd), STR_HINT)

\* Mutant: a line without a token is looked up as the empty name.
cli_parse_and_execute_EmptyToken(s, cmd) ==
    IF Len(cmd) = 0 THEN s
    ELSE LET cmd_copy == SubSeq(cmd, 1, IF Len(cmd) < CLI_BUFFER_SIZE - 1 THEN Len(cmd)
                                       ELSE CLI_BUFFER_SIZE - 1)
             argv == IF Len(Tokenize(cmd_copy)) = 0 THEN << <<>> >> ELSE Tokenize(cmd_copy)
             i == FindCommand(s.cmds, argv[1])
         IN IF i > 0
            THEN IF s.cmds[i].handler # "NULL"
                 THEN [s EXCEPT !.calls = Append(@, [entry |-> i,
                                                     handler |-> s.cmds[i].handler,
                                                     argv |-> argv]),
                                !.events = Append(@, [kind |-> "call", at |-> Len(s.out)])]
                 ELSE s
            ELSE cli_puts(cli_puts(cli_puts(s, STR_UNKNOWN), argv[1]), STR_HINT)

\* Mutant: the return sits inside the handler test, so an entry without a
\* handler is passed over and the search goes on.
cli_parse_and_execute_SkipNull(s, cmd) ==
    IF Len(cmd) = 0 THEN s
    ELSE LET cmd_copy == SubSeq(cmd, 1, IF Len(cmd) < CLI_BUFFER_SIZE - 1 THEN Len(cmd)
                                       ELSE CLI_BUFFER_SIZE - 1)
             argv == Tokenize(cmd_copy)
             usable == IF Len(argv) = 0 THEN {}
                       ELSE {i \in 1 .. Len(s.cmds) :
                                s.cmds[i].name = argv[1] /\ s.cmds[i].handler # "NULL"}
             first == CHOOSE i \in usable : \A j \in usable : i <= j
         IN IF Len(argv) = 0 THEN s
            ELSE IF usable # {}
            THEN [s EXCEPT !.calls = Append(@, [entry |-> first,
                                                handler |-> s.cmds[first].handler,
                                                argv |-> argv]),
                           !.events = Append(@, [kind |-> "call", at |-> Len(s.out)])]
            ELSE cli_puts(cli_puts(cli_puts(s, STR_UNKNOWN), argv[1]), STR_HINT)

cli_parse_and_execute(s, cmd) ==
    IF Len(cmd) = 0 THEN s
    ELSE LET cmd_copy == SubSeq(cmd, 1, IF Len(cmd) < CLI_BUFFER_SIZE - 1 THEN Len(cmd)
                                       ELSE CLI_BUFFER_SIZE - 1)
             argv == Tokenize(cmd_copy)
             i == IF Len(argv) = 0 THEN 0 ELSE FindCommand(s.cmds, argv[1])
         IN IF Len(argv) = 0 THEN s
            ELSE IF i > 0
            THEN IF s.cmds[i].handler # "NULL"
                 THEN [s EXCEPT !.calls = Append(@, [entry |-> i,
                                                     handler |-> s.cmds[i].handler,
                                                     argv |-> argv]),
                                !.events = Append(@, [kind |-> "call", at |-> Len(s.out)])]
                 ELSE s
            ELSE cli_puts(cli_puts(cli_puts(s, STR_UNKNOWN), argv[1]), STR_HINT)

\* ---------------------------------------------------------------------------
\* Public API
\* ---------------------------------------------------------------------------
\* The statically initialised state, before any cli_init.
Boot ==
    [buf |-> ZeroBuffer, idx |-> 0,
     hist |-> [i \in 0 .. (CLI_HISTORY_SIZE - 1) |-> <<>>],
     count |-> 0, pos |-> -1, arrow |-> "NORMAL",
     cmds |-> <<>>, putc |-> "NULL", getc |-> "NULL",
     out |-> <<>>, calls |-> <<>>, events |-> <<>>, ub |-> FALSE,
     last |-> [op |-> "none", ch |-> -1, arrow |-> "NORMAL", idx |-> 0, count |-> 0,
               pos |-> -1, line |-> <<>>],
     esc_obs |-> [stage |-> 0, x |-> -1, snap |-> <<>>, out |-> <<>>],
     run_ok |-> TRUE, run_in |-> <<>>, run_out |-> <<>>]

\* Mutant: the configuration is stored before it is validated.
cli_init_StoreFirst(s, config) ==
    IF config.null THEN s
    ELSE IF config.putchar_fn = "NULL" \/ config.getchar_fn = "NULL"
    THEN [s EXCEPT !.cmds = config.commands,
                   !.putc = config.putchar_fn,
                   !.getc = config.getchar_fn]
    ELSE cli_prompt(cli_puts(
            [s EXCEPT !.cmds = config.commands,
                      !.putc = config.putchar_fn,
                      !.getc = config.getchar_fn,
                      !.idx = 0, !.buf = ZeroBuffer,
                      !.count = 0, !.pos = -1, !.arrow = "NORMAL"],
            STR_BANNER))

\* Mutant: a configuration without getchar is accepted.
cli_init_NoGetcharTest(s, config) ==
    IF config.null \/ config.putchar_fn = "NULL" THEN s
    ELSE cli_prompt(cli_puts(
            [s EXCEPT !.cmds = config.commands,
                      !.putc = config.putchar_fn,
                      !.getc = config.getchar_fn,
                      !.idx = 0, !.buf = ZeroBuffer,
                      !.count = 0, !.pos = -1, !.arrow = "NORMAL"],
            STR_BANNER))

\* config: [null, commands, putchar_fn, getchar_fn]
cli_init(s, config) ==
    IF config.null \/ config.putchar_fn = "NULL" \/ config.getchar_fn = "NULL" THEN s
    ELSE cli_prompt(cli_puts(
            [s EXCEPT !.cmds = config.commands,
                      !.putc = config.putchar_fn,
                      !.getc = config.getchar_fn,
                      !.idx = 0, !.buf = ZeroBuffer,
                      !.count = 0, !.pos = -1, !.arrow = "NORMAL"],
            STR_BANNER))

\* Mutant: the line is processed first and CR LF echoed afterwards.
Submit_LateEcho(s) ==
    IF s.idx > CLI_BUFFER_SIZE - 1 THEN [s EXCEPT !.ub = TRUE]
    ELSE LET buf1 == [s.buf EXCEPT ![s.idx] = 0]
             cmd == CStrAt(buf1, 0)
             s2 == cli_add_to_history([s EXCEPT !.buf = buf1], cmd)
             s3 == PutChar(PutChar(cli_parse_and_execute(s2, cmd), 13), 10)
         IN cli_prompt([s3 EXCEPT !.idx = 0, !.buf = ZeroBuffer, !.arrow = "NORMAL"])

\* Mutant: the recognizer state survives the Submit.
Submit_KeepArrow(s) ==
    LET s1 == PutChar(PutChar(s, 13), 10)
    IN IF s.idx > CLI_BUFFER_SIZE - 1 THEN [s1 EXCEPT !.ub = TRUE]
       ELSE LET buf1 == [s.buf EXCEPT ![s.idx] = 0]
                cmd == CStrAt(buf1, 0)
                s2 == cli_add_to_history([s1 EXCEPT !.buf = buf1], cmd)
                s3 == cli_parse_and_execute(s2, cmd)
            IN cli_prompt([s3 EXCEPT !.idx = 0, !.buf = ZeroBuffer])

\* The Enter/Return branch of cli_update.
Submit(s) ==
    LET s1 == PutChar(PutChar(s, 13), 10)
    IN IF s.idx > CLI_BUFFER_SIZE - 1 THEN [s1 EXCEPT !.ub = TRUE]
       ELSE LET buf1 == [s.buf EXCEPT ![s.idx] = 0]
                cmd == CStrAt(buf1, 0)
                s2 == cli_add_to_history([s1 EXCEPT !.buf = buf1], cmd)
                s3 == cli_parse_and_execute(s2, cmd)
            IN cli_prompt([s3 EXCEPT !.idx = 0, !.buf = ZeroBuffer, !.arrow = "NORMAL"])

\* Mutant: inside an escape sequence the byte is dropped like any other.
Backspace_OnlyNormal(s) ==
    [(IF s.idx > 0 /\ s.arrow = "NORMAL"
      THEN cli_puts([s EXCEPT !.idx = @ - 1], STR_ERASE) ELSE s)
        EXCEPT !.arrow = "NORMAL"]

\* The Backspace branch of cli_update.
Backspace(s) ==
    [(IF s.idx > 0 THEN cli_puts([s EXCEPT !.idx = @ - 1], STR_ERASE) ELSE s)
        EXCEPT !.arrow = "NORMAL"]

\* The arrow-key branch of cli_update: a byte met in BRACKET_RECEIVED.
ArrowKey(s, ch) ==
    [(IF ch = 65 THEN cli_load_history(s, 1)
      ELSE IF ch = 66 THEN cli_load_history(s, -1)
      ELSE s)
        EXCEPT !.arrow = "NORMAL"]

\* The Tab branch of cli_update.
TabKey(s) == [cli_tab_complete(s) EXCEPT !.arrow = "NORMAL"]

\* Mutant: the character is stored but not echoed.
AppendLiteral_NoEcho(s, ch) ==
    IF s.arrow = "NORMAL" /\ s.idx < CLI_BUFFER_SIZE - 1
    THEN [s EXCEPT !.buf[s.idx] = ch, !.idx = @ + 1]
    ELSE [s EXCEPT !.arrow = "NORMAL"]

\* Mutant: the capacity test is off by one (the terminator slot is used).
AppendLiteral_OffByOne(s, ch) ==
    IF s.arrow = "NORMAL" /\ s.idx < CLI_BUFFER_SIZE
    THEN PutChar([s EXCEPT !.buf[s.idx] = ch, !.idx = @ + 1], ch)
    ELSE [s EXCEPT !.arrow = "NORMAL"]

\* Mutant: while browsing, the edit line and the stored entry are one array,
\* so a typed character lands in the entry as well.
AppendLiteral_Alias(s, ch) ==
    IF s.arrow = "NORMAL" /\ s.idx < CLI_BUFFER_SIZE - 1
    THEN PutChar([s EXCEPT !.buf[s.idx] = ch, !.idx = @ + 1,
                           !.hist = IF s.pos = -1 THEN @
                                    ELSE [@ EXCEPT ![s.pos] = Append(@, ch)]], ch)
    ELSE [s EXCEPT !.arrow = "NORMAL"]

\* The last two branches of cli_update: a normal character, or the reset.
AppendLiteral(s, ch) ==
    IF s.arrow = "NORMAL" /\ s.idx < CLI_BUFFER_SIZE - 1
    THEN PutChar([s EXCEPT !.buf[s.idx] = ch, !.idx = @ + 1], ch)
    ELSE [s EXCEPT !.arrow = "NORMAL"]

\* Mutant: '[' opens the arrow sequence without a preceding ESC.
EscapeOrChar_BareBracket(s, ch) ==
    IF ch = 27 THEN [s EXCEPT !.arrow = "ESC_RECEIVED"]
    ELSE IF s.arrow # "BRACKET_RECEIVED" /\ ch = 91 THEN [s EXCEPT !.arrow = "BRACKET_RECEIVED"]
    ELSE IF s.arrow = "BRACKET_RECEIVED" THEN ArrowKey(s, ch)
    ELSE IF ch = 9 THEN TabKey(s)
    ELSE AppendLiteral(s, ch)

\* The branches of cli_update that follow the Enter and Backspace branches.
EscapeOrChar(s, ch) ==
    IF ch = 27 THEN [s EXCEPT !.arrow = "ESC_RECEIVED"]
    ELSE IF s.arrow = "ESC_RECEIVED" /\ ch = 91 THEN [s EXCEPT !.arrow = "BRACKET_RECEIVED"]
    ELSE IF s.arrow = "BRACKET_RECEIVED" THEN ArrowKey(s, ch)
    ELSE IF ch = 9 THEN TabKey(s)
    ELSE AppendLiteral(s, ch)

\* Mutant: the escape state is tested first, so a line terminator met inside an
\* escape sequence is swallowed by it.
cli_update_byte_Swallow(s, ch) ==
    IF s.arrow # "NORMAL" /\ (ch = 13 \/ ch = 10) THEN [s EXCEPT !.arrow = "NORMAL"]
    ELSE IF ch = 13 \/ ch = 10 THEN Submit(s)
    ELSE IF ch = 8 \/ ch = 127 THEN Backspace(s)
    ELSE EscapeOrChar(s, ch)

\* One iteration of the loop of cli_update, cli_getchar_internal having returned ch.
cli_update_byte(s, ch) ==
    IF ch = 13 \/ ch = 10 THEN Submit(s)
    ELSE IF ch = 8 \/ ch = 127 THEN Backspace(s)
    ELSE EscapeOrChar(s, ch)

\* ---------------------------------------------------------------------------
\* Observers and the environment
\* ---------------------------------------------------------------------------
ControlBytes == {13, 10, 8, 127, 27, 9}

\* The session state proper: what an input byte may change besides the output.
Core(s) == [buf |-> s.buf, idx |-> s.idx, hist |-> s.hist, count |-> s.count,
            pos |-> s.pos]

\* The line a Submit hands to cli_add_to_history and cli_parse_and_execute: the
\* edit line read as a C string.
LineOf(s) == CutAtNul(Content(s.buf, s.idx))

\* The observer of escape sequences: stage 1 after ESC met in NORMAL, stage 2
\* after '[' follows it, stage 3 after the byte x that follows the '['; snap is
\* the session state the ESC met and out the output of the sequence so far.
EscObserve(s, ch, n) ==
    IF ch = 27 /\ s.arrow = "NORMAL"
    THEN [stage |-> 1, x |-> -1, snap |-> Core(s), out |-> n.out]
    ELSE IF s.esc_obs.stage = 1 /\ ch = 91
    THEN [s.esc_obs EXCEPT !.stage = 2, !.out = @ \o n.out]
    ELSE IF s.esc_obs.stage = 2
    THEN [s.esc_obs EXCEPT !.stage = 3, !.x = ch, !.out = @ \o n.out]
    ELSE [stage |-> 0, x |-> -1, snap |-> <<>>, out |-> <<>>]

\* cli_update_byte with the per-step output and the observers brought up to date.
Step(s, ch) ==
    LET n == cli_update_byte([s EXCEPT !.out = <<>>, !.calls = <<>>, !.events = <<>>], ch)
        extend == s.run_ok /\ ch \notin ControlBytes
                  /\ Len(s.run_in) + 1 < CLI_BUFFER_SIZE
        restart == n.idx = 0 /\ n.arrow = "NORMAL"
    IN [n EXCEPT
          !.last = [op |-> "byte", ch |-> ch, arrow |-> s.arrow, idx |-> s.idx,
                    count |-> s.count, pos |-> s.pos,
                    line |-> IF ch = 13 \/ ch = 10 THEN LineOf(s) ELSE <<>>],
          !.esc_obs = EscObserve(s, ch, n),
          !.run_ok = extend \/ restart,
          !.run_in = IF extend THEN Append(s.run_in, ch) ELSE <<>>,
          !.run_out = IF extend THEN s.run_out \o n.out ELSE <<>>]

RECURSIVE Run(_, _)
\* The state after the bytes of script have been processed one by one from s.
Run(s, script) ==
    IF script = <<>> \/ s.ub THEN s ELSE Run(Step(s, Head(script)), Tail(script))

\* The variables hold the session state s.
Holds(s) ==
    /\ cli_buffer = s.buf
    /\ cli_index = s.idx
    /\ cli_history = s.hist
    /\ history_count = s.count
    /\ current_history_pos = s.pos
    /\ arrow_state = s.arrow
    /\ cli_commands = s.cmds
    /\ cli_putchar_fn = s.putc
    /\ cli_getchar_fn = s.getc
    /\ out = s.out
    /\ calls = s.calls
    /\ events = s.events
    /\ ub = s.ub
    /\ last = s.last
    /\ esc_obs = s.esc_obs
    /\ run_ok = s.run_ok
    /\ run_in = s.run_in
    /\ run_out = s.run_out

HoldsNext(s) ==
    /\ cli_buffer' = s.buf
    /\ cli_index' = s.idx
    /\ cli_history' = s.hist
    /\ history_count' = s.count
    /\ current_history_pos' = s.pos
    /\ arrow_state' = s.arrow
    /\ cli_commands' = s.cmds
    /\ cli_putchar_fn' = s.putc
    /\ cli_getchar_fn' = s.getc
    /\ out' = s.out
    /\ calls' = s.calls
    /\ events' = s.events
    /\ ub' = s.ub
    /\ last' = s.last
    /\ esc_obs' = s.esc_obs
    /\ run_ok' = s.run_ok
    /\ run_in' = s.run_in
    /\ run_out' = s.run_out

\* The command table of the application (cli_impl.c).
app_commands ==
    << [name |-> <<104, 101, 108, 112>>,          handler |-> "cli_cmd_help"],
       [name |-> <<105, 110, 102, 111>>,          handler |-> "cli_cmd_info"],
       [name |-> <<108, 105, 115, 116>>,          handler |-> "cli_cmd_list"],
       [name |-> <<118, 97, 114, 115>>,           handler |-> "cli_cmd_vars"],
       [name |-> <<103, 101, 116>>,               handler |-> "cli_cmd_get"],
       [name |-> <<115, 101, 116>>,               handler |-> "cli_cmd_set"],
       [name |-> <<115, 116, 97, 116, 117, 115>>, handler |-> "cli_cmd_status"],
       [name |-> <<114, 101, 115, 101, 116>>,     handler |-> "cli_cmd_reset"] >>

\* The configuration cli_user_init passes to cli_init.
UserConfig(commands) ==
    [null |-> FALSE, commands |-> commands,
     putchar_fn |-> "cli_uart_putchar_impl", getchar_fn |-> "cli_uart_getchar_impl"]

\* The session after cli_init(UserConfig(commands)) and the bytes of script.
After(commands, script) == Run(cli_init(Boot, UserConfig(commands)), script)

\* One iteration of cli_update's loop on a byte the source delivers.
cli_update ==
    /\ ~ub
    /\ cli_getchar_fn # "NULL"
    /\ left > 0
    /\ \E ch \in inputs : HoldsNext(Step(St, ch))
    /\ left' = left - 1
    /\ UNCHANGED <<inputs, rx, pc, init_result>>
    /\ UNCHANGED ring

Next == cli_update

\* The static initialisers of cli_impl.c: no ring installed.
RingUnset ==
    /\ cli_dma_rx_buffer = "NULL"
    /\ cli_dma_buffer_size = 0
    /\ cli_dma_counter = "NULL"
    /\ cli_last_processed = 0
    /\ current_pos = -1
    /\ ret = -1
    /\ received = <<>>
    /\ delivered = <<>>
    /\ overrun = FALSE

\* The loop of cli_update is running on a started session and the byte source
\* hands over each byte as it arrives: none is pending.  The source is any
\* getchar callback; no DMA ring is modelled behind it.
InLoop ==
    /\ rx = <<>>
    /\ pc = "cli_update"
    /\ init_result = "accepted"
    /\ rx_buffer = <<>>
    /\ dma_counter = 0
    /\ RingUnset
    /\ char_is_signed = FALSE

\* ---------------------------------------------------------------------------
\* Scenarios: a command table, a prefix of input already processed, and the
\* bytes the source may deliver afterwards.
\* ---------------------------------------------------------------------------
AllBytes == {0, 8, 9, 10, 13, 27, 32, 65, 66, 90, 91, 97, 127}

\* "", "he", "s", "set", "set\r", "ZZ\rhe"
GeneralScripts ==
    { <<>>,
      <<104, 101>>,
      <<115>>,
      <<115, 101, 116>>,
      <<115, 101, 116, 13>>,
      <<90, 90, 13, 104, 101>> }

Init ==
    /\ \E script \in GeneralScripts : Holds(After(app_commands, script))
    /\ inputs = AllBytes
    /\ left = MaxInput
    /\ InLoop

Spec == Init /\ [][Next]_vars

\* Editing: literals, backspace, Enter and ESC met by an empty, a nearly full
\* and a full line.
Alternating(n) == [k \in 1 .. n |-> IF k % 2 = 1 THEN 97 ELSE 98]

EditScripts ==
    { <<>>,
      <<90, 13>>,
      Alternating(CLI_BUFFER_SIZE - 3),
      Alternating(CLI_BUFFER_SIZE - 1) }

EditBytes == {0, 32, 65, 91, 97, 98, 8, 13, 27}

InitEdit ==
    /\ \E script \in EditScripts : Holds(After(app_commands, script))
    /\ inputs = EditBytes
    /\ left = MaxInput
    /\ InLoop

SpecEdit == InitEdit /\ [][Next]_vars

\* History: k one-byte lines 'a', 'b', ... already submitted, then short lines.
SubmittedLines(k) == [j \in 1 .. (2 * k) |-> IF j % 2 = 1 THEN 97 + (j - 1) \div 2 ELSE 13]

HistScripts ==
    { SubmittedLines(0), SubmittedLines(1), SubmittedLines(2),
      SubmittedLines(CLI_HISTORY_SIZE - 1), SubmittedLines(CLI_HISTORY_SIZE) }

HistBytes == {0, 8, 10, 13, 32, 90, 97, 98}

InitHist ==
    /\ \E script \in HistScripts : Holds(After(app_commands, script))
    /\ inputs = HistBytes
    /\ left = MaxInput
    /\ InLoop

SpecHist == InitHist /\ [][Next]_vars

\* A command table with a name as long as the edit line can hold.
LongNameCommands ==
    Append(app_commands,
           [name |-> [k \in 1 .. (CLI_BUFFER_SIZE - 1) |-> 97], handler |-> "cli_cmd_long"])

\* "", "a"
LongScripts == { <<>>, <<97>> }

InitLong ==
    /\ \E script \in LongScripts : Holds(After(LongNameCommands, script))
    /\ inputs = AllBytes
    /\ left = MaxInput
    /\ InLoop

SpecLong == InitLong /\ [][Next]_vars

\* Dispatch: "set rate 5", "  set  rate 5 ", "bogus", "set 1 2 3 4 5 6 7 8", "  ",
\* and "  " typed again after it was submitted.
DispatchScripts ==
    { <<>>,
      <<115, 101, 116, 32, 114, 97, 116, 101, 32, 53>>,
      <<32, 32, 115, 101, 116, 32, 32, 114, 97, 116, 101, 32, 53, 32>>,
      <<98, 111, 103, 117, 115>>,
      <<115, 101, 116, 32, 49, 32, 50, 32, 51, 32, 52, 32, 53, 32, 54, 32, 55, 32, 56>>,
      <<32, 32>>,
      <<32, 32, 13, 32, 32>> }

DispatchBytes == {8, 10, 13, 27, 32, 97, 115}

InitDispatch ==
    /\ \E script \in DispatchScripts : Holds(After(app_commands, script))
    /\ inputs = DispatchBytes
    /\ left = MaxInput
    /\ InLoop

SpecDispatch == InitDispatch /\ [][Next]_vars

\* Completion: the tables {help, status}, {help, history, halt} and
\* {hel, help, status}.
PairCommands ==
    << [name |-> <<104, 101, 108, 112>>,          handler |-> "cli_cmd_help"],
       [name |-> <<115, 116, 97, 116, 117, 115>>, handler |-> "cli_cmd_status"] >>

TrioCommands ==
    << [name |-> <<104, 101, 108, 112>>,                handler |-> "cli_cmd_help"],
       [name |-> <<104, 105, 115, 116, 111, 114, 121>>, handler |-> "cli_cmd_history"],
       [name |-> <<104, 97, 108, 116>>,                 handler |-> "cli_cmd_halt"] >>

NestedCommands ==
    << [name |-> <<104, 101, 108>>,               handler |-> "cli_cmd_hel"],
       [name |-> <<104, 101, 108, 112>>,          handler |-> "cli_cmd_help"],
       [name |-> <<115, 116, 97, 116, 117, 115>>, handler |-> "cli_cmd_status"] >>

\* Two names longer than a row of matches[][]: "he" and 130 times 'x', "he"
\* and 130 times 'y'.
WideCommands ==
    << [name |-> <<104, 101>> \o [k \in 1 .. (CLI_BUFFER_SIZE + 2) |-> 120],
        handler |-> "cli_cmd_wide_x"],
       [name |-> <<104, 101>> \o [k \in 1 .. (CLI_BUFFER_SIZE + 2) |-> 121],
        handler |-> "cli_cmd_wide_y"] >>

\* "", "h", "he", "hel", "s"
CompleteScripts ==
    { <<>>, <<104>>, <<104, 101>>, <<104, 101, 108>>, <<115>> }

CompleteBytes == {8, 9, 13, 27, 32, 97, 101, 104, 108}

InitComplete ==
    /\ \E commands \in {PairCommands, TrioCommands, NestedCommands, WideCommands},
          script \in CompleteScripts :
          Holds(After(commands, script))
    /\ inputs = CompleteBytes
    /\ left = MaxInput
    /\ InLoop

SpecComplete == InitComplete /\ [][Next]_vars

\* Browsing: "a" and "b" (or ten lines) submitted, then Up pressed some times,
\* some scripts ending inside the next arrow sequence; "he" submitted and
\* recalled.
ArrowUp == <<27, 91, 65>>

BrowseScripts ==
    { <<>>,
      <<27, 91>>,
      SubmittedLines(2) \o <<27, 91>>,
      SubmittedLines(2) \o ArrowUp,
      SubmittedLines(2) \o ArrowUp \o <<27, 91>>,
      SubmittedLines(2) \o ArrowUp \o ArrowUp \o <<27, 91>>,
      SubmittedLines(CLI_HISTORY_SIZE) \o ArrowUp \o ArrowUp,
      <<104, 101, 13>> \o ArrowUp }

BrowseBytes == {8, 9, 13, 27, 65, 66, 91, 97}

InitBrowse ==
    /\ \E script \in BrowseScripts : Holds(After(app_commands, script))
    /\ inputs = BrowseBytes
    /\ left = MaxInput
    /\ InLoop

SpecBrowse == InitBrowse /\ [][Next]_vars

\* Lookup: a table with names that repeat, a name that extends another, a
\* name in capitals, and a repeated name whose first entry has no handler.
LookupCommands ==
    << [name |-> <<97, 98>>,     handler |-> "cli_cmd_first"],
       [name |-> <<97, 98>>,     handler |-> "cli_cmd_second"],
       [name |-> <<97, 98, 98>>, handler |-> "cli_cmd_longer"],
       [name |-> <<65, 66>>,     handler |-> "cli_cmd_upper"],
       [name |-> <<98>>,         handler |-> "NULL"],
       [name |-> <<98>>,         handler |-> "cli_cmd_shadowed"] >>

\* "", "a", "ab", "A", "ab "
LookupScripts == { <<>>, <<97>>, <<97, 98>>, <<65>>, <<97, 98, 32>> }

LookupBytes == {10, 13, 32, 65, 66, 97, 98}

InitLookup ==
    /\ \E script \in LookupScripts : Holds(After(LookupCommands, script))
    /\ inputs = LookupBytes
    /\ left = MaxInput
    /\ InLoop

SpecLookup == InitLookup /\ [][Next]_vars

\* More matches than MAX_MATCHES: the names "ab0" to "ab9" and then "aa".
ManyCommands ==
    [i \in 1 .. (MAX_MATCHES + 1) |->
        IF i <= MAX_MATCHES
        THEN [name |-> <<97, 98, 47 + i>>, handler |-> "cli_cmd_many"]
        ELSE [name |-> <<97, 97>>,         handler |-> "cli_cmd_last"]]

\* "", "a"
ManyScripts == { <<>>, <<97>> }

ManyBytes == {8, 9, 13, 48, 97, 98}

InitMany ==
    /\ \E script \in ManyScripts : Holds(After(ManyCommands, script))
    /\ inputs = ManyBytes
    /\ left = MaxInput
    /\ InLoop

SpecMany == InitMany /\ [][Next]_vars

\* ---------------------------------------------------------------------------
\* cli_init as the host sees it
\* ---------------------------------------------------------------------------
\* The test of cli_init on its configuration.
ValidConfig(config) ==
    ~(config.null \/ config.putchar_fn = "NULL" \/ config.getchar_fn = "NULL")

\* A step of the program that processes no byte: nothing written, no handler.
Quiet(s, op) ==
    [s EXCEPT !.out = <<>>, !.calls = <<>>, !.events = <<>>,
              !.last = [op |-> op, ch |-> -1, arrow |-> s.arrow, idx |-> s.idx,
                        count |-> s.count, pos |-> s.pos, line |-> <<>>]]

\* cli_init(config) with the observers brought up to date.
InitStep(s, config) ==
    LET n == cli_init(Quiet(s, "cli_init"), config)
    IN IF ValidConfig(config)
       THEN [n EXCEPT !.esc_obs = Boot.esc_obs,
                      !.run_ok = TRUE, !.run_in = <<>>, !.run_out = <<>>]
       ELSE n

NullConfig ==
    [null |-> TRUE, commands |-> <<>>, putchar_fn |-> "NULL", getchar_fn |-> "NULL"]

\* ---------------------------------------------------------------------------
\* The DMA ring of cli_impl.c: the DMA stores received bytes in a circular
\* buffer and counts its free slots down, cli_uart_getchar_impl reads behind
\* it.
\* ---------------------------------------------------------------------------
\* The command table of src/Core/Src/cli_impl.c.
app_commands_cli_impl ==
    << [name |-> <<104, 101, 108, 112>>,          handler |-> "cli_cmd_help"],
       [name |-> <<115, 116, 97, 116, 117, 115>>, handler |-> "cli_cmd_status"],
       [name |-> <<108, 105, 115, 116>>,          handler |-> "cli_cmd_list"],
       [name |-> <<103, 101, 116>>,               handler |-> "cli_cmd_get"],
       [name |-> <<115, 101, 116>>,               handler |-> "cli_cmd_set"],
       [name |-> <<99, 102, 103>>,                handler |-> "cli_cmd_cfg"],
       [name |-> <<99, 97, 108, 105, 98, 114, 97, 116, 101>>,
                                                  handler |-> "cli_cmd_calibrate"],
       [name |-> <<102, 105, 108, 101, 100, 117, 109, 112>>,
                                                  handler |-> "cli_cmd_filedump"],
       [name |-> <<102, 108, 97, 115, 104, 100, 117, 109, 112>>,
                                                  handler |-> "cli_cmd_flashdump"] >>

\* (int)(char)b: the byte as the build's plain char, widened to int.
CharToInt(b) == IF char_is_signed /\ b >= 128 THEN b - 256 ELSE b

\* A receive buffer of size slots before the DMA has written to it.
ZeroRing(size) == [i \in 0 .. (size - 1) |-> 0]

\* The number of slots of the receive buffer.
RxBufferSize == Cardinality(DOMAIN rx_buffer)

\* What a ring shows a reader whose read index is read_index: the slots from
\* there up to the DMA's write position (size - counter), oldest first.  A
\* writer that gets a whole buffer ahead takes the bytes it overwrote, and
\* those at the read index with them, out of this view.
UnreadOf(buffer, counter, read_index) ==
    LET size == Cardinality(DOMAIN buffer)
    IN IF size = 0 THEN <<>>
       ELSE [k \in 1 .. ((2 * size - counter - read_index) % size) |->
                buffer[(read_index + k - 1) % size]]

\* The session stays.
SessionFrame ==
    UNCHANGED <<cli_buffer, cli_index, cli_history, history_count, current_history_pos,
                arrow_state, cli_commands, cli_putchar_fn, cli_getchar_fn, out, calls,
                events, ub, last, esc_obs, run_ok, run_in, run_out, init_result>>

\* The environment and the control stay.
RingFrame == UNCHANGED <<inputs, pc>>

\* cli_user_init(rx_buffer, buffer_size, dma_counter), called once at startup
\* with the receive buffer, its size and the DMA's counter register.
cli_user_init ==
    /\ pc = "host"
    /\ ~ub
    /\ cli_dma_counter = "NULL"
    /\ current_pos = -1
    /\ rx_buffer # <<>>
    /\ cli_dma_rx_buffer' = "rx_buffer"
    /\ cli_dma_buffer_size' = RxBufferSize
    /\ cli_dma_counter' = "dma_counter"
    /\ cli_last_processed' = 0
    /\ HoldsNext(InitStep(St, UserConfig(app_commands_cli_impl)))
    /\ init_result' = "accepted"
    /\ rx' = UnreadOf(rx_buffer, dma_counter, 0)
    /\ UNCHANGED <<rx_buffer, dma_counter, char_is_signed, current_pos, ret, received,
                   delivered, overrun, left>>
    /\ RingFrame

\* The UART receives a byte: the DMA stores it at the write position and
\* counts down; in circular mode the counter is reloaded when it reaches zero.
dma_store ==
    /\ rx_buffer # <<>>
    /\ left > 0
    /\ \E b \in inputs :
          /\ rx_buffer' = [rx_buffer EXCEPT ![RxBufferSize - dma_counter] = b]
          /\ received' = Append(received, b)
    /\ dma_counter' = IF dma_counter = 1 THEN RxBufferSize ELSE dma_counter - 1
    /\ overrun' = (overrun \/ Len(received) + 1 - Len(delivered) >= RxBufferSize)
    /\ left' = left - 1
    /\ rx' = UnreadOf(rx_buffer', dma_counter', cli_last_processed)
    /\ UNCHANGED <<cli_dma_rx_buffer, cli_dma_buffer_size, cli_dma_counter,
                   cli_last_processed, char_is_signed, current_pos, ret, delivered>>
    /\ SessionFrame
    /\ RingFrame

\* cli_uart_getchar_impl up to the read of the DMA counter: it returns -1 at
\* once when no ring is installed.
cli_uart_getchar_impl_sample ==
    /\ current_pos = -1
    /\ IF cli_dma_counter = "NULL" \/ cli_dma_rx_buffer = "NULL"
       THEN ret' = -1 /\ current_pos' = -1
       ELSE /\ current_pos' = (cli_dma_buffer_size - dma_counter) % 65536
            /\ ret' = ret
    /\ UNCHANGED <<rx_buffer, dma_counter, cli_dma_rx_buffer, cli_dma_buffer_size,
                   cli_dma_counter, cli_last_processed, char_is_signed, received,
                   delivered, overrun, left, rx>>
    /\ SessionFrame
    /\ RingFrame

\* Mutant: the read index is advanced without the wrap at the buffer's end.
cli_uart_getchar_impl_read_NoWrap ==
    /\ current_pos # -1
    /\ IF cli_last_processed # current_pos
       THEN /\ ret' = CharToInt(rx_buffer[cli_last_processed % cli_dma_buffer_size])
            /\ cli_last_processed' = cli_last_processed + 1
            /\ delivered' = Append(delivered, ret')
       ELSE /\ ret' = -1
            /\ UNCHANGED <<cli_last_processed, delivered>>
    /\ current_pos' = -1
    /\ rx' = UnreadOf(rx_buffer, dma_counter, cli_last_processed')
    /\ UNCHANGED <<rx_buffer, dma_counter, cli_dma_rx_buffer, cli_dma_buffer_size,
                   cli_dma_counter, char_is_signed, received, overrun, left>>
    /\ SessionFrame
    /\ RingFrame

\* The rest of cli_uart_getchar_impl: new data is read and the read index
\* advanced, or -1 is returned.
cli_uart_getchar_impl_read ==
    /\ current_pos # -1
    /\ IF cli_last_processed # current_pos
       THEN /\ ret' = CharToInt(rx_buffer[cli_last_processed])
            /\ cli_last_processed' = (cli_last_processed + 1) % cli_dma_buffer_size
            /\ delivered' = Append(delivered, ret')
       ELSE /\ ret' = -1
            /\ UNCHANGED <<cli_last_processed, delivered>>
    /\ current_pos' = -1
    /\ rx' = UnreadOf(rx_buffer, dma_counter, cli_last_processed')
    /\ UNCHANGED <<rx_buffer, dma_counter, cli_dma_rx_buffer, cli_dma_buffer_size,
                   cli_dma_counter, char_is_signed, received, overrun, left>>
    /\ SessionFrame
    /\ RingFrame

NextRing ==
    \/ cli_user_init
    \/ dma_store
    \/ cli_uart_getchar_impl_sample
    \/ cli_uart_getchar_impl_read

\* The bytes on the wire: a letter, CR, and bytes with the top bit set.
RingBytes == {13, 97, 128, 255}

\* Before cli_user_init, with the DMA running on a zeroed buffer.  The sources
\* name no compiler flag, so plain char is signed or unsigned: unsigned is the
\* ARM EABI's choice, the one the STM32F103 firmware is built with, signed is
\* what -fsigned-char or a hosted compiler gives.
InitRing ==
    /\ Holds(Boot)
    /\ init_result = "none"
    /\ inputs = RingBytes
    /\ left = MaxInput
    /\ rx = <<>>
    /\ pc = "host"
    /\ \E buffer_size \in 1 .. MaxRing :
          rx_buffer = ZeroRing(buffer_size) /\ dma_counter = buffer_size
    /\ RingUnset
    /\ char_is_signed \in BOOLEAN

SpecRing == InitRing /\ [][NextRing]_vars

\* ---------------------------------------------------------------------------
\* The host: it calls cli_user_init, cli_init and cli_update while the DMA
\* stores the bytes the UART receives; cli_update reads them through
\* cli_uart_getchar_impl, one per loop iteration.
\* ---------------------------------------------------------------------------
\* The call of cli_getchar_internal can complete: there is no source, the
\* source has no ring (it returns at once), or it has read the DMA counter.
SourceReady ==
    \/ cli_getchar_fn = "NULL"
    \/ cli_dma_counter = "NULL" \/ cli_dma_rx_buffer = "NULL"
    \/ current_pos # -1

\* cli_uart_getchar_impl reads a slot and moves the read index on: a ring is
\* installed and the read index differs from the write position it sampled.
SlotRead ==
    /\ cli_dma_counter # "NULL" /\ cli_dma_rx_buffer # "NULL"
    /\ cli_last_processed # current_pos

\* What cli_uart_getchar_impl returns once it can complete: -1 without a ring
\* or without new data, else the byte at the read index as a plain char.
cli_uart_getchar_impl ==
    IF SlotRead THEN CharToInt(rx_buffer[cli_last_processed]) ELSE -1

\* What cli_getchar_internal returns: -1 when there is no source, else what
\* the source returns.
cli_getchar_internal ==
    IF cli_getchar_fn # "NULL" THEN cli_uart_getchar_impl ELSE -1

\* What the completed call of cli_getchar_internal leaves in the reader: the
\* slot was read (read index moved on, value returned), the source returned
\* -1, or no source was called.
SourceReturns ==
    /\ current_pos' = -1
    /\ IF cli_getchar_fn = "NULL"
       THEN UNCHANGED <<cli_last_processed, ret, delivered, rx>>
       ELSE /\ ret' = cli_uart_getchar_impl
            /\ IF SlotRead
               THEN /\ cli_last_processed' =
                          (cli_last_processed + 1) % cli_dma_buffer_size
                    /\ delivered' = Append(delivered, cli_uart_getchar_impl)
                    /\ rx' = UnreadOf(rx_buffer, dma_counter, cli_last_processed')
               ELSE UNCHANGED <<cli_last_processed, delivered, rx>>
    /\ UNCHANGED <<rx_buffer, dma_counter, cli_dma_rx_buffer, cli_dma_buffer_size,
                   cli_dma_counter, char_is_signed, received, overrun>>

HostConfigs ==
    { NullConfig,
      [UserConfig(app_commands_cli_impl) EXCEPT !.putchar_fn = "NULL"],
      [UserConfig(app_commands_cli_impl) EXCEPT !.getchar_fn = "NULL"],
      UserConfig(app_commands_cli_impl),
      UserConfig(PairCommands) }

\* The host calls cli_init.
cli_init_call ==
    /\ pc = "host"
    /\ ~ub
    /\ \E config \in HostConfigs :
          /\ HoldsNext(InitStep(St, config))
          /\ init_result' = IF ValidConfig(config) THEN "accepted" ELSE "rejected"
    /\ UNCHANGED <<inputs, left, rx, pc>>
    /\ UNCHANGED ring

\* The host calls cli_update.
cli_update_enter ==
    /\ pc = "host"
    /\ ~ub
    /\ HoldsNext(Quiet(St, "enter"))
    /\ pc' = "cli_update"
    /\ UNCHANGED <<inputs, left, rx, init_result>>
    /\ UNCHANGED ring

\* The loop of cli_update calls cli_getchar_internal and the source reads the
\* DMA counter (its first read; the slot is read in a later step, and the DMA
\* may store in between).
cli_update_sample ==
    /\ pc = "cli_update"
    /\ ~ub
    /\ cli_getchar_fn # "NULL"
    /\ cli_dma_counter # "NULL" /\ cli_dma_rx_buffer # "NULL"
    /\ cli_uart_getchar_impl_sample

\* Mutant: the byte is processed but the read index stays.
cli_update_iterate_Peek ==
    /\ pc = "cli_update"
    /\ ~ub
    /\ SourceReady
    /\ cli_getchar_internal >= 0
    /\ HoldsNext(Step(St, cli_getchar_internal))
    /\ current_pos' = -1
    /\ ret' = cli_getchar_internal
    /\ UNCHANGED <<rx_buffer, dma_counter, cli_dma_rx_buffer, cli_dma_buffer_size,
                   cli_dma_counter, cli_last_processed, char_is_signed, received,
                   delivered, overrun>>
    /\ UNCHANGED <<inputs, left, rx, pc, init_result>>

\* One iteration of the loop: cli_getchar_internal returns a byte (the source
\* reads the slot and moves the read index on) and the byte is processed.
cli_update_iterate ==
    /\ pc = "cli_update"
    /\ ~ub
    /\ SourceReady
    /\ cli_getchar_internal >= 0
    /\ HoldsNext(Step(St, cli_getchar_internal))
    /\ SourceReturns
    /\ UNCHANGED <<inputs, left, pc, init_result>>

\* The last iteration: cli_getchar_internal returns a negative value (no
\* source, no ring, no new data, or a slot read as a negative plain char) and
\* cli_update returns.
cli_update_return ==
    /\ pc = "cli_update"
    /\ ~ub
    /\ SourceReady
    /\ cli_getchar_internal < 0
    /\ HoldsNext(Quiet(St, "return"))
    /\ pc' = "host"
    /\ SourceReturns
    /\ UNCHANGED <<inputs, left, init_result>>

NextHost ==
    \/ cli_user_init
    \/ cli_init_call
    \/ dma_store
    \/ cli_update_enter
    \/ cli_update_sample
    \/ cli_update_iterate
    \/ cli_update_return

\* "", "ZZ\rhe" ESC
HostScripts == { <<>>, <<90, 90, 13, 104, 101, 27>> }

\* CR, a letter, and a byte with the top bit set.
HostBytes == {13, 104, 255}

\* The sizes of the receive buffer: one that MaxInput bytes overrun and one
\* that holds them.
HostRingSizes == {2, 4}

\* The slots of a ring of size slots after the bytes of script were stored
\* from slot 0 on: each slot holds the last byte stored in it.
RingAfter(size, script) ==
    [i \in 0 .. (size - 1) |->
        LET stored == {k \in 1 .. Len(script) : (k - 1) % size = i}
        IN IF stored = {} THEN 0
           ELSE script[CHOOSE k \in stored : \A j \in stored : j <= k]]

\* The DMA is running, on a build with signed or with unsigned plain char;
\* cli_user_init has not been called yet, or it started a session some input
\* ago and every byte of that input has been read.
InitHost ==
    /\ inputs = HostBytes
    /\ left = MaxInput
    /\ rx = <<>>
    /\ pc = "host"
    /\ char_is_signed \in BOOLEAN
    /\ current_pos = -1
    /\ ret = -1
    /\ overrun = FALSE
    /\ \E size \in HostRingSizes :
          \/ /\ Holds(Boot)
             /\ init_result = "none"
             /\ rx_buffer = ZeroRing(size)
             /\ dma_counter = size
             /\ cli_dma_rx_buffer = "NULL"
             /\ cli_dma_buffer_size = 0
             /\ cli_dma_counter = "NULL"
             /\ cli_last_processed = 0
             /\ received = <<>>
             /\ delivered = <<>>
          \/ \E script \in HostScripts :
                /\ Holds(After(app_commands_cli_impl, script))
                /\ init_result = "accepted"
                /\ rx_buffer = RingAfter(size, script)
                /\ dma_counter = size - (Len(script) % size)
                /\ cli_dma_rx_buffer = "rx_buffer"
                /\ cli_dma_buffer_size = size
                /\ cli_dma_counter = "dma_counter"
                /\ cli_last_processed = Len(script) % size
                /\ received = script
                /\ delivered = script

SpecHost == InitHost /\ [][NextHost]_vars

\* What a turn of the loop does to the reader and to the control: the source
\* reads the DMA counter; or the call completes with a byte, which is
\* processed; or it completes without one and cli_update returns.  The steps
\* of cli_update_sample, cli_update_iterate and cli_update_return are the
\* steps of NextHost that are turns of the loop.
LoopTurn ==
    /\ pc = "cli_update"
    /\ ~ub
    /\ \/ /\ ~SourceReady
          /\ current_pos' = (cli_dma_buffer_size - dma_counter) % 65536
          /\ cli_last_processed' = cli_last_processed
          /\ pc' = pc
       \/ /\ SourceReady
          /\ current_pos' = -1
          /\ cli_last_processed' =
                IF cli_getchar_fn # "NULL" /\ SlotRead
                THEN (cli_last_processed + 1) % cli_dma_buffer_size
                ELSE cli_last_processed
          /\ pc' = IF cli_getchar_internal >= 0 THEN pc ELSE "host"

\* The loop of cli_update keeps running: a turn that can be taken is taken.
SpecHostFair == SpecHost /\ WF_<<current_pos, cli_last_processed, pc>>(LoopTurn)

\* ---------------------------------------------------------------------------
\* Claims
\* ---------------------------------------------------------------------------

\* C1 (round trip): while only literal bytes (none of CR, LF, BS, DEL, ESC, TAB),
\* fewer than CLI_BUFFER_SIZE of them, have been processed since the edit line
\* was empty in NORMAL, the edit line holds exactly those bytes, its length is
\* their number, and the output they produced is the same byte sequence.
C1_RoundTrip ==
    run_ok =>
        /\ cli_index = Len(run_in)
        /\ Content(cli_buffer, cli_index) = run_in
        /\ run_out = run_in

\* A run of CLI_BUFFER_SIZE - 1 literals has been processed from an empty line.
C1_Witness ==
    /\ run_ok
    /\ Len(run_in) = CLI_BUFFER_SIZE - 1
    /\ last.ch \notin ControlBytes
    /\ left < MaxInput

\* C2 (overflow idempotence): a literal byte met in NORMAL by an edit line of
\* length CLI_BUFFER_SIZE - 1 is neither stored nor echoed: length and buffer
\* stay as they were and nothing is written.
C2_OverflowStep ==
    (/\ arrow_state = "NORMAL"
     /\ cli_index = CLI_BUFFER_SIZE - 1
     /\ last'.ch \notin ControlBytes)
    => /\ cli_index' = CLI_BUFFER_SIZE - 1
       /\ cli_buffer' = cli_buffer
       /\ out' = <<>>

\* C2: every step satisfies C2_OverflowStep, so any number of further literals
\* leaves a full edit line as it was.
C2_OverflowIdempotent == [][C2_OverflowStep]_vars

\* A literal has just been dropped by a full line, whose bytes are still the
\* CLI_BUFFER_SIZE - 1 bytes typed first.
C2_Witness ==
    /\ last.ch \notin ControlBytes
    /\ last.ch >= 0
    /\ last.arrow = "NORMAL"
    /\ last.idx = CLI_BUFFER_SIZE - 1
    /\ cli_index = CLI_BUFFER_SIZE - 1
    /\ Content(cli_buffer, cli_index) = Alternating(CLI_BUFFER_SIZE - 1)

\* C4 (history de-duplication): a Submit whose line is empty or equal to the
\* most recently recorded entry leaves the history as it was; any other line
\* becomes the newest entry (and below capacity the older entries stay); in
\* every state no stored entry is empty and no two adjacent entries are equal.
\* The line is the edit line as the C string handed to cli_add_to_history.
C4_NoAdjacentDuplicates ==
    \A i \in 0 .. (history_count - 1) :
        /\ cli_history[i] # <<>>
        /\ (i + 1 < history_count => cli_history[i] # cli_history[i + 1])

C4_SubmitStep ==
    (last'.ch = 13 \/ last'.ch = 10) =>
        LET line == LineOf(St)
        IN IF line = <<>>
              \/ (history_count > 0 /\ cli_history[history_count - 1] = line)
           THEN cli_history' = cli_history /\ history_count' = history_count
           ELSE /\ history_count' > 0
                /\ cli_history'[history_count' - 1] = line
                /\ (history_count < CLI_HISTORY_SIZE =>
                       /\ history_count' = history_count + 1
                       /\ \A i \in 0 .. (history_count - 1) :
                             cli_history'[i] = cli_history[i])

\* C4: the history never holds an empty entry or two equal adjacent entries,
\* and every Submit step records its line exactly when it is non-empty and
\* differs from the newest entry.
C4_HistoryDedup == [](C4_NoAdjacentDuplicates) /\ [][C4_SubmitStep]_vars

\* "a" has been submitted twice in a row and is stored once.
C4_Witness ==
    /\ last.ch = 13
    /\ last.line = <<97>>
    /\ last.count = 1
    /\ history_count = 1
    /\ cli_history[0] = <<97>>
    /\ left < MaxInput

\* C5 (history capacity): the history never holds more than CLI_HISTORY_SIZE
\* entries; a line recorded while it holds CLI_HISTORY_SIZE evicts the oldest
\* entry, moves every other entry one place down in order, and becomes the
\* newest one.
C5_EvictStep ==
    (/\ last'.ch = 13 \/ last'.ch = 10
     /\ history_count = CLI_HISTORY_SIZE
     /\ LineOf(St) # <<>>
     /\ cli_history[CLI_HISTORY_SIZE - 1] # LineOf(St))
    => /\ history_count' = CLI_HISTORY_SIZE
       /\ \A i \in 0 .. (CLI_HISTORY_SIZE - 2) : cli_history'[i] = cli_history[i + 1]
       /\ cli_history'[CLI_HISTORY_SIZE - 1] = LineOf(St)

\* C5: history_count stays within 0 .. CLI_HISTORY_SIZE and every Submit step
\* that records a line into a full history evicts the oldest entry, in order.
C5_HistoryCapacity ==
    [](history_count \in 0 .. CLI_HISTORY_SIZE) /\ [][C5_EvictStep]_vars

\* After the CLI_HISTORY_SIZE lines 'a', 'b', ... the line "Z" was submitted:
\* 'a' is gone, 'b' is the oldest entry and "Z" the newest.
C5_Witness ==
    /\ last.ch = 13
    /\ last.line = <<90>>
    /\ last.count = CLI_HISTORY_SIZE
    /\ history_count = CLI_HISTORY_SIZE
    /\ \A i \in 0 .. (CLI_HISTORY_SIZE - 2) : cli_history[i] = <<98 + i>>
    /\ cli_history[CLI_HISTORY_SIZE - 1] = <<90>>

\* C3 (edit line bounds), as stated: in every state cli_index lies in
\* 0 .. CLI_BUFFER_SIZE - 1 and no access of cli_buffer has been out of bounds.
C3_IndexInBounds ==
    /\ cli_index \in 0 .. (CLI_BUFFER_SIZE - 1)
    /\ ~ub

\* The words of a line: its maximal runs of bytes other than the space.
WordStarts(line) ==
    {k \in 1 .. Len(line) : line[k] # 32 /\ (k = 1 \/ line[k - 1] = 32)}

WordEnd(line, k) ==
    CHOOSE e \in k .. Len(line) :
        /\ \A j \in k .. e : line[j] # 32
        /\ (e = Len(line) \/ line[e + 1] = 32)

WordsOf(line) ==
    LET starts == WordStarts(line)
        nth(i) == CHOOSE k \in starts : Cardinality({j \in starts : j < k}) = i - 1
    IN [i \in 1 .. Cardinality(starts) |-> SubSeq(line, nth(i), WordEnd(line, nth(i)))]

FirstWords(line, n) ==
    LET w == WordsOf(line) IN SubSeq(w, 1, IF Len(w) < n THEN Len(w) ELSE n)

\* The table entry a submitted line is dispatched to: the first one named as
\* the line's first word (0: the line has no word, or no entry has that name).
EntryFor(line) ==
    LET w == WordsOf(line)
    IN IF w # <<>> /\ \E i \in 1 .. Len(cli_commands) : cli_commands[i].name = w[1]
       THEN CHOOSE i \in 1 .. Len(cli_commands) :
               /\ cli_commands[i].name = w[1]
               /\ \A j \in 1 .. (i - 1) : cli_commands[j].name # w[1]
       ELSE 0

\* A Submit has just been processed for a line whose first word names a table
\* entry with a handler.
Dispatched ==
    /\ last.ch = 13 \/ last.ch = 10
    /\ EntryFor(last.line) > 0
    /\ cli_commands[EntryFor(last.line)].handler # "NULL"

\* C6 as stated: the handler is invoked once with every word of the line.
C6_FullTokenList ==
    Dispatched =>
        calls = << [entry |-> EntryFor(last.line),
                    handler |-> cli_commands[EntryFor(last.line)].handler,
                    argv |-> WordsOf(last.line)] >>

\* C6 (dispatch tokenization, amended): on Submit of a line whose first word
\* names a table entry with a handler, that handler is invoked exactly once,
\* with the words of the line in order (runs of spaces, leading and trailing
\* ones included, give no empty word), and with no more than the first
\* CLI_MAX_ARGS of them.
C6_DispatchTokens ==
    Dispatched =>
        calls = << [entry |-> EntryFor(last.line),
                    handler |-> cli_commands[EntryFor(last.line)].handler,
                    argv |-> FirstWords(last.line, CLI_MAX_ARGS)] >>

\* "  set  rate 5 " was submitted and cli_cmd_set got ["set", "rate", "5"].
C6_Witness ==
    /\ last.ch = 13
    /\ last.line = <<32, 32, 115, 101, 116, 32, 32, 114, 97, 116, 101, 32, 53, 32>>
    /\ calls = << [entry |-> 6, handler |-> "cli_cmd_set",
                   argv |-> << <<115, 101, 116>>, <<114, 97, 116, 101>>, <<53>> >>] >>

\* C7 (unknown command): on Submit of a line whose first word is no table
\* name, no handler is invoked, the output is CR LF, "Unknown command: ", the
\* word, CR LF, the help hint line and the prompt, and the session is ready
\* for the next line: empty edit line, NORMAL, no out-of-bounds access.
C7_UnknownCommand ==
    (/\ last.ch = 13 \/ last.ch = 10
     /\ WordsOf(last.line) # <<>>
     /\ EntryFor(last.line) = 0)
    => /\ calls = <<>>
       /\ out = STR_CRLF \o STR_UNKNOWN \o WordsOf(last.line)[1] \o STR_HINT \o STR_PROMPT
       /\ cli_index = 0
       /\ cli_buffer = ZeroBuffer
       /\ arrow_state = "NORMAL"
       /\ ~ub

\* "bogus a" was submitted and reported as unknown command "bogus".
C7_Witness ==
    /\ last.ch = 13
    /\ last.line = <<98, 111, 103, 117, 115, 32, 97>>
    /\ out = STR_CRLF \o STR_UNKNOWN \o <<98, 111, 103, 117, 115>> \o STR_HINT \o STR_PROMPT
    /\ calls = <<>>

\* C8 (escape robustness): ESC met in NORMAL, then '[', then any byte x other
\* than 'A', 'B', CR, LF, BS and DEL leave cli_buffer, cli_index, the history
\* and the browse cursor as they were, write nothing, and end with the
\* recognizer in NORMAL.
C8_EscapeDropsAll ==
    (esc_obs.stage = 3 /\ esc_obs.x \notin {65, 66, 13, 10, 8, 127})
    => /\ Core(St) = esc_obs.snap
       /\ esc_obs.out = <<>>
       /\ arrow_state = "NORMAL"

\* C9 as stated: a TAB met outside NORMAL is dropped: nothing is written, the
\* edit line keeps its length, and the recognizer returns to NORMAL.
C9_TabDroppedOutsideNormal ==
    (last.ch = 9 /\ last.arrow # "NORMAL")
    => /\ out = <<>>
       /\ cli_index = last.idx
       /\ arrow_state = "NORMAL"

\* C10 (CR and LF always submit): whatever the recognizer state it meets, a CR
\* or LF is processed as a Submit: CR LF is written first and the prompt last,
\* a non-empty line is the newest history entry afterwards, a line naming a
\* command with a handler has that handler invoked, the edit line is empty
\* and the recognizer is in NORMAL.
C10_TerminatorSubmits ==
    (last.ch = 13 \/ last.ch = 10)
    => /\ arrow_state = "NORMAL"
       /\ cli_index = 0
       /\ cli_buffer = ZeroBuffer
       /\ Len(out) >= 4
       /\ SubSeq(out, 1, 2) = STR_CRLF
       /\ SubSeq(out, Len(out) - 1, Len(out)) = STR_PROMPT
       /\ (last.line # <<>> =>
              history_count > 0 /\ cli_history[history_count - 1] = last.line)
       /\ (Dispatched => Len(calls) = 1)
       /\ (WordsOf(last.line) # <<>> /\ EntryFor(last.line) = 0 =>
              out = STR_CRLF \o STR_UNKNOWN \o WordsOf(last.line)[1]
                    \o STR_HINT \o STR_PROMPT)

\* A CR met in BRACKET_RECEIVED submitted the line "set": it was recorded and
\* cli_cmd_set was invoked.
C10_Witness ==
    /\ last.ch = 13
    /\ last.arrow = "BRACKET_RECEIVED"
    /\ last.line = <<115, 101, 116>>
    /\ cli_history[history_count - 1] = <<115, 101, 116>>
    /\ calls = << [entry |-> 6, handler |-> "cli_cmd_set", argv |-> << <<115, 101, 116>> >>] >>

\* A step that processes BS or DEL: the recognizer ends in NORMAL and the
\* history and the browse cursor stay; an empty line stays as it is and nothing
\* is written; any other line loses its last byte, keeps the bytes before it,
\* and backspace, space, backspace are written.
C11_EraseStep ==
    (last'.ch = 8 \/ last'.ch = 127)
    => /\ arrow_state' = "NORMAL"
       /\ cli_history' = cli_history
       /\ history_count' = history_count
       /\ current_history_pos' = current_history_pos
       /\ calls' = <<>>
       /\ IF cli_index = 0
          THEN cli_index' = 0 /\ cli_buffer' = cli_buffer /\ out' = <<>>
          ELSE /\ cli_index' = cli_index - 1
               /\ Content(cli_buffer', cli_index') = Content(cli_buffer, cli_index - 1)
               /\ out' = STR_ERASE

\* C11 (BS and DEL always erase): in every recognizer state a BS or DEL byte
\* erases the last byte of the edit line, if there is one, writes backspace,
\* space, backspace exactly then, and forces the recognizer to NORMAL.
C11_EraseLastAlways == [][C11_EraseStep]_vars

\* A DEL met in BRACKET_RECEIVED by the line "he" left "h" and wrote the three
\* bytes.
C11_Witness ==
    /\ last.ch = 127
    /\ last.arrow = "BRACKET_RECEIVED"
    /\ last.idx = 2
    /\ cli_index = 1
    /\ Content(cli_buffer, cli_index) = <<104>>
    /\ out = STR_ERASE
    /\ arrow_state = "NORMAL"

\* C12 (submit output ordering): the output of every Submit, of an empty line
\* or not, starts with CR LF and ends with the prompt; the history recording
\* and the handler invocation happen after the CR LF was written and before
\* the prompt is, and so does the unknown-command text; an empty line writes
\* CR LF and the prompt only.
C12_SubmitOutputOrder ==
    (last.ch = 13 \/ last.ch = 10)
    => /\ Len(out) >= 4
       /\ SubSeq(out, 1, 2) = STR_CRLF
       /\ SubSeq(out, Len(out) - 1, Len(out)) = STR_PROMPT
       /\ \A k \in 1 .. Len(events) : events[k].at >= 2 /\ events[k].at <= Len(out) - 2
       /\ (last.line = <<>> => out = STR_CRLF \o STR_PROMPT /\ events = <<>>)
       /\ (history_count # last.count
              => \E k \in 1 .. Len(events) : events[k].kind = "record")
       /\ (Dispatched <=> \E k \in 1 .. Len(events) : events[k].kind = "call")

\* "set rate 5" was submitted: CR LF, then the recording and the call of
\* cli_cmd_set, then the prompt.
C12_Witness ==
    /\ last.ch = 13
    /\ last.line = <<115, 101, 116, 32, 114, 97, 116, 101, 32, 53>>
    /\ out = STR_CRLF \o STR_PROMPT
    /\ events = << [kind |-> "record", at |-> 2], [kind |-> "call", at |-> 2] >>

\* name begins with the bytes of word, byte for byte.
StartsWith(name, word) ==
    /\ Len(word) <= Len(name)
    /\ SubSeq(name, 1, Len(word)) = word

\* The table entries whose name starts with word.
PrefixedBy(word) ==
    {i \in 1 .. Len(cli_commands) : StartsWith(cli_commands[i].name, word)}

\* The edit line is one non-empty word without a space, met in NORMAL.
TypedWord == Content(cli_buffer, cli_index)

OneWordInNormal ==
    /\ arrow_state = "NORMAL"
    /\ cli_index \in 1 .. (CLI_BUFFER_SIZE - 1)
    /\ \A k \in 1 .. cli_index : TypedWord[k] # 32

\* A TAB step on a word that is a table name and a prefix of no other name
\* writes nothing and leaves buffer, index, history and recognizer as they were.
C13_ExactStep ==
    (/\ last'.ch = 9
     /\ OneWordInNormal
     /\ Cardinality(PrefixedBy(TypedWord)) = 1
     /\ \E i \in PrefixedBy(TypedWord) : cli_commands[i].name = TypedWord)
    => /\ out' = <<>>
       /\ cli_buffer' = cli_buffer
       /\ cli_index' = cli_index
       /\ arrow_state' = "NORMAL"
       /\ ~ub'

\* C13 (completion no-op on exact match): TAB met in NORMAL by a line without
\* a space that is a table name and a prefix of no other name writes nothing
\* and leaves the edit line as it was.
C13_ExactMatchNoOp == [][C13_ExactStep]_vars

\* TAB has been processed on the line "set".
C13_Witness ==
    /\ last.ch = 9
    /\ last.arrow = "NORMAL"
    /\ last.idx = 3
    /\ TypedWord = <<115, 101, 116>>
    /\ out = <<>>

\* A TAB is about to be processed in NORMAL on the line "he" with the table
\* {help, status}.
C14_HeThenTab ==
    /\ last'.ch = 9
    /\ arrow_state = "NORMAL"
    /\ cli_commands = PairCommands
    /\ TypedWord = <<104, 101>>

\* C14 as stated: with the table {help, status}, TAB after "he" leaves the line
\* "help " and the completion writes exactly "lp ".
C14_EchoSuffixOnly ==
    [][C14_HeThenTab =>
          /\ TypedWord' = <<104, 101, 108, 112, 32>>
          /\ out' = <<108, 112, 32>>]_vars

\* C14 (single-match completion echo, amended): with the table {help, status},
\* TAB after "he" leaves the line "help " of length 5, and the completion
\* writes backspace, space, backspace once for each of the two typed bytes and
\* then the whole name "help" and the space.
C14_EchoRewrite ==
    [][C14_HeThenTab =>
          /\ TypedWord' = <<104, 101, 108, 112, 32>>
          /\ cli_index' = 5
          /\ out' = STR_ERASE \o STR_ERASE \o <<104, 101, 108, 112, 32>>]_vars

\* TAB has completed "he" to "help " with the table {help, status}.
C14_Witness ==
    /\ last.ch = 9
    /\ last.arrow = "NORMAL"
    /\ last.idx = 2
    /\ cli_commands = PairCommands
    /\ TypedWord = <<104, 101, 108, 112, 32>>
    /\ Len(out) = 11

\* The table entries whose name is longer than word and starts with it.
ProperlyPrefixedBy(word) ==
    {i \in PrefixedBy(word) : cli_commands[i].name # word}

\* The line after a single-match completion to name, and what is written.
CompletedTo(name) ==
    /\ TypedWord' = name \o <<32>>
    /\ cli_index' = Len(name) + 1
    /\ out' = Repeat(STR_ERASE, cli_index) \o name \o <<32>>
    /\ arrow_state' = "NORMAL"

\* C15 as stated: TAB met in NORMAL by a one-word line that is a proper prefix
\* of exactly one table name rewrites the line to that name and a space.
C15_ProperPrefixOfOne ==
    [][(/\ last'.ch = 9
        /\ OneWordInNormal
        /\ Cardinality(ProperlyPrefixedBy(TypedWord)) = 1)
       => \A i \in ProperlyPrefixedBy(TypedWord) : CompletedTo(cli_commands[i].name)]_vars

\* C15 (single-match completion result, amended): TAB met in NORMAL by a
\* one-word line that is a prefix of exactly one table name, that name being
\* longer than the word, leaves the edit line holding the name and one space,
\* of length len(name) + 1, and writes backspace, space, backspace for each
\* typed byte, then the name and the space.
C15_SingleMatchResult ==
    [][(/\ last'.ch = 9
        /\ OneWordInNormal
        /\ Cardinality(PrefixedBy(TypedWord)) = 1
        /\ Cardinality(ProperlyPrefixedBy(TypedWord)) = 1)
       => \A i \in ProperlyPrefixedBy(TypedWord) : CompletedTo(cli_commands[i].name)]_vars

\* TAB has completed "hel" to "help " with the table {help, history, halt}.
C15_Witness ==
    /\ last.ch = 9
    /\ last.arrow = "NORMAL"
    /\ last.idx = 3
    /\ cli_commands = TrioCommands
    /\ TypedWord = <<104, 101, 108, 112, 32>>
    /\ out = STR_ERASE \o STR_ERASE \o STR_ERASE \o <<104, 101, 108, 112, 32>>

\* The table names that start with word, in table order.
NamesPrefixedBy(word) ==
    LET names == [i \in 1 .. Len(cli_commands) |-> cli_commands[i].name]
        starts(name) == StartsWith(name, word)
    IN SelectSeq(names, starts)

\* Length of the longest common prefix of the names of a non-empty list.
LongestCommonPrefix(names) ==
    LET agree(n) == \A i \in 1 .. Len(names) :
                       Len(names[i]) >= n /\ SubSeq(names[i], 1, n) = SubSeq(names[1], 1, n)
    IN CHOOSE n \in 0 .. Len(names[1]) : agree(n) /\ ~agree(n + 1)

\* C16 (multi-match completion listing), as stated: TAB met in NORMAL by a
\* one-word line that is a prefix of two or more table names writes CR LF,
\* those names in table order joined by two spaces, CR LF, the prompt and the
\* current edit line; when the longest common prefix of the names is as long
\* as the word, the edit line stays as it was.
C16_MultiMatchListing ==
    [][(/\ last'.ch = 9
        /\ OneWordInNormal
        /\ Len(NamesPrefixedBy(TypedWord)) >= 2)
       => /\ out' = STR_CRLF \o JoinMatches(NamesPrefixedBy(TypedWord), 1) \o STR_CRLF
                     \o STR_PROMPT \o TypedWord'
          /\ (LongestCommonPrefix(NamesPrefixedBy(TypedWord)) = cli_index
                 => cli_index' = cli_index /\ TypedWord' = TypedWord)]_vars

\* The read index of the byte source stays where it was: no byte has been
\* consumed.
NothingConsumed == cli_last_processed' = cli_last_processed

\* A step of a cli_update call made while no valid configuration is installed
\* (every cli_init so far was rejected): no byte consumed, nothing changed,
\* nothing written.
C17_ClosedStep ==
    (/\ init_result = "rejected"
     /\ cli_getchar_fn = "NULL"
     /\ pc = "cli_update" \/ pc' = "cli_update")
    => /\ NothingConsumed
       /\ Core(St)' = Core(St)
       /\ arrow_state' = arrow_state
       /\ cli_commands' = cli_commands
       /\ out' = <<>>
       /\ calls' = <<>>

\* A rejected cli_init installs nothing: a session that had no byte source
\* before has none afterwards.
C17_RejectStep ==
    (last'.op = "cli_init" /\ init_result' = "rejected" /\ cli_getchar_fn = "NULL")
    => cli_getchar_fn' = "NULL" /\ cli_putchar_fn' = "NULL" /\ out' = <<>>

\* C17 (initialization fails closed): when cli_init is called with a null
\* configuration or without putchar or getchar and no valid configuration was
\* installed before, no byte source is installed, and every later call of
\* cli_update consumes no pending byte, changes no session state and writes
\* nothing.
C17_InitFailsClosed == [][C17_ClosedStep /\ C17_RejectStep]_vars

\* cli_init was rejected, a byte is pending, and a call of cli_update has
\* returned leaving it pending.
C17_Witness ==
    /\ init_result = "rejected"
    /\ cli_getchar_fn = "NULL"
    /\ last.op = "return"
    /\ pc = "host"
    /\ rx # <<>>

\* The session state is left alone and nothing is written.
SessionQuiet ==
    /\ Core(St)' = Core(St)
    /\ arrow_state' = arrow_state
    /\ out' = <<>>
    /\ calls' = <<>>

\* The session state and the pending bytes are left alone and nothing is written.
NoEffect == SessionQuiet /\ rx' = rx

\* The steps of a cli_update call: entering it has no effect; a byte the
\* source hands over inside the loop is processed, it alone is consumed, and
\* while the writer has not overrun the ring it is the oldest pending byte;
\* nothing is processed or written in a step that takes no byte from the
\* source; the call returns only when the source has reported no
\* data (a negative value, or there is no source), returning changes no
\* session state and writes nothing, and a return that took nothing from the
\* source leaves the pending bytes alone.
C18_CallStep ==
    /\ (pc = "host" /\ pc' = "cli_update" => NoEffect)
    /\ (pc = "cli_update" /\ pc' = "cli_update" /\ delivered' # delivered =>
           /\ last'.op = "byte"
           /\ last'.ch >= 0
           /\ delivered' = Append(delivered, last'.ch)
           /\ ~overrun => /\ rx # <<>>
                          /\ last'.ch = Head(rx)
                          /\ rx' = Tail(rx))
    /\ (pc = "cli_update" /\ delivered' = delivered =>
           /\ Core(St)' = Core(St)
           /\ arrow_state' = arrow_state
           /\ out' = out \/ out' = <<>>
           /\ calls' = calls \/ calls' = <<>>)
    /\ (pc = "cli_update" /\ pc' = "host" =>
           /\ cli_getchar_fn = "NULL" \/ ret' < 0
           /\ SessionQuiet
           /\ delivered' = delivered => rx' = rx
           /\ delivered' # delivered => delivered' = Append(delivered, ret'))

\* C18 (cli_update never blocks): a call of cli_update takes the bytes the
\* source hands over one at a time (oldest pending byte first while the ring
\* is not overrun), processes each of them, and returns when the source
\* reports no data; a call that finds no pending byte changes nothing and
\* writes nothing; with finitely many bytes arriving every call returns.
C18_UpdateDrainsAndReturns ==
    [][C18_CallStep]_vars /\ ((pc = "cli_update") ~> (pc = "host"))

\* Inside a call of cli_update one byte has been processed and another one is
\* pending.
C18_Witness ==
    /\ pc = "cli_update"
    /\ last.op = "byte"
    /\ rx # <<>>
    /\ cli_getchar_fn # "NULL"

\* C19 (browse cursor reset on Submit), as stated: after every Submit, also
\* of a line loaded from the history and equal to its newest entry, the
\* browse cursor is "not browsing" (-1), so that the next Up loads the newest
\* entry.
C19_CursorResetOnSubmit ==
    (last.ch = 13 \/ last.ch = 10) => current_history_pos = -1

\* What clearing the visible line writes.
ClearedLine == <<13>> \o STR_PROMPT \o Spaces(CLI_BUFFER_SIZE) \o <<13>> \o STR_PROMPT

\* The cursor after Up: the newest index when not browsing, one older when
\* not at the oldest index, the oldest index otherwise.
OlderIndex ==
    IF current_history_pos = -1 THEN history_count - 1
    ELSE IF current_history_pos > 0 THEN current_history_pos - 1
    ELSE 0

\* A step that processes 'A' in BRACKET_RECEIVED.
C20_PrevStep ==
    (last'.ch = 65 /\ arrow_state = "BRACKET_RECEIVED")
    => /\ cli_history' = cli_history
       /\ history_count' = history_count
       /\ arrow_state' = "NORMAL"
       /\ IF history_count = 0
          THEN /\ cli_buffer' = cli_buffer
               /\ cli_index' = cli_index
               /\ current_history_pos' = current_history_pos
               /\ out' = <<>>
          ELSE /\ current_history_pos' = OlderIndex
               /\ TypedWord' = cli_history[OlderIndex]
               /\ cli_index' = Len(cli_history[OlderIndex])
               /\ cli_buffer'[cli_index'] = 0
               /\ out' = ClearedLine \o cli_history[OlderIndex]

\* C20 (HistoryPrev): ESC '[' 'A' with a non-empty history moves the browse
\* cursor to the newest index when not browsing, one index older when not at
\* the oldest, and leaves it at the oldest otherwise; the edit line then
\* holds the entry at the cursor, with its length, and the visible line is
\* cleared and the entry written; with an empty history nothing changes.
C20_HistoryPrev == [][C20_PrevStep]_vars

\* Up moved the cursor from the newest entry "b" to the entry "a".
C20_Witness ==
    /\ last.ch = 65
    /\ last.arrow = "BRACKET_RECEIVED"
    /\ last.pos = 1
    /\ history_count = 2
    /\ current_history_pos = 0
    /\ TypedWord = <<97>>
    /\ out = ClearedLine \o <<97>>

\* A step that processes 'B' in BRACKET_RECEIVED.
C21_NextStep ==
    (last'.ch = 66 /\ arrow_state = "BRACKET_RECEIVED")
    => /\ cli_history' = cli_history
       /\ history_count' = history_count
       /\ arrow_state' = "NORMAL"
       /\ IF current_history_pos = -1
          THEN /\ cli_buffer' = cli_buffer
               /\ cli_index' = cli_index
               /\ current_history_pos' = -1
               /\ out' = <<>>
          ELSE IF current_history_pos + 1 > history_count - 1
          THEN /\ current_history_pos' = -1
               /\ cli_index' = 0
               /\ cli_buffer' = ZeroBuffer
               /\ out' = ClearedLine
          ELSE /\ current_history_pos' = current_history_pos + 1
               /\ TypedWord' = cli_history[current_history_pos + 1]
               /\ cli_index' = Len(cli_history[current_history_pos + 1])
               /\ out' = ClearedLine \o cli_history[current_history_pos + 1]

\* C21 (HistoryNext): ESC '[' 'B' while not browsing changes neither the edit
\* line nor the cursor and writes nothing; while browsing it advances the
\* cursor by one; past the newest index the cursor becomes -1 and the edit
\* line empty, otherwise the edit line holds the entry at the new cursor.
C21_HistoryNext == [][C21_NextStep]_vars

\* Down moved the cursor from the oldest entry "a" to the entry "b".
C21_Witness ==
    /\ last.ch = 66
    /\ last.arrow = "BRACKET_RECEIVED"
    /\ last.pos = 0
    /\ history_count = 2
    /\ current_history_pos = 1
    /\ TypedWord = <<98>>

\* The listing a multi-match completion writes for word.
ListingFor(word) == STR_CRLF \o JoinMatches(NamesPrefixedBy(word), 1) \o STR_CRLF

\* C22 (redraw after multi-match completion), as stated: what a multi-match
\* completion writes after the listing is the prompt followed by exactly the
\* edit line, its first cli_index bytes, whatever editing came before.
C22_RedrawIsEditLine ==
    [][(/\ last'.ch = 9
        /\ OneWordInNormal
        /\ Len(NamesPrefixedBy(TypedWord)) >= 2)
       => SubSeq(out', Len(ListingFor(TypedWord)) + 1, Len(out'))
             = STR_PROMPT \o TypedWord']_vars

\* The matches of a completion: the names that start with word, in table
\* order, no more than MAX_MATCHES of them.
MatchesOf(word) ==
    LET names == NamesPrefixedBy(word)
    IN SubSeq(names, 1, IF Len(names) < MAX_MATCHES THEN Len(names) ELSE MAX_MATCHES)

\* A TAB step met in NORMAL by a one-word line with two or more matches.
C23_ExtendStep ==
    (/\ last'.ch = 9
     /\ OneWordInNormal
     /\ Len(MatchesOf(TypedWord)) >= 2)
    => LET matches == MatchesOf(TypedWord)
           common == LongestCommonPrefix(matches)
       IN IF common > cli_index
          THEN /\ cli_index' = common
               /\ TypedWord' = SubSeq(matches[1], 1, common)
               /\ cli_buffer'[common] = 0
          ELSE /\ cli_index' = cli_index
               /\ TypedWord' = TypedWord

\* C23 (multi-match prefix extension): when two or more names match and
\* their longest common prefix is longer than the typed word, the edit line
\* becomes exactly that prefix, with its length and no space after it;
\* otherwise the edit line stays as it was.
C23_PrefixExtension == [][C23_ExtendStep]_vars

\* TAB on "h" with the table {hel, help, status} extended the line to "hel".
C23_Witness ==
    /\ last.ch = 9
    /\ last.arrow = "NORMAL"
    /\ last.idx = 1
    /\ cli_commands = NestedCommands
    /\ cli_index = 3
    /\ TypedWord = <<104, 101, 108>>

\* A TAB step met in NORMAL by an empty line, by a line with a space, or by a
\* word that no table name starts with (the word as the completion reads it,
\* a C string), writes nothing and leaves the edit line as it was.
C24_NoOpStep ==
    (/\ last'.ch = 9
     /\ arrow_state = "NORMAL"
     /\ cli_index \in 0 .. (CLI_BUFFER_SIZE - 1)
     /\ \/ cli_index = 0
        \/ \E k \in 1 .. cli_index : TypedWord[k] = 32
        \/ PrefixedBy(CutAtNul(TypedWord)) = {})
    => /\ out' = <<>>
       /\ cli_buffer' = cli_buffer
       /\ cli_index' = cli_index
       /\ ~ub'

C25_DropStep ==
    (/\ arrow_state = "ESC_RECEIVED"
     /\ last'.op = "byte"
     /\ last'.ch \notin {91, 13, 10, 8, 127})
    => /\ cli_buffer' = cli_buffer
       /\ cli_index' = cli_index
       /\ out' = <<>>
       /\ cli_history' = cli_history
       /\ history_count' = history_count
       /\ current_history_pos' = current_history_pos
       /\ arrow_state' = "NORMAL"

\* C25 (escape abort): any byte received after ESC, other than '[', CR, LF, BS
\* and DEL, is dropped: not appended, not echoed, no history or completion
\* action, and the recognizer leaves the escape sequence.
C25_EscapeByteDropped == [][C25_DropStep]_vars

\* The cursor after Down while browsing: one newer, or -1 past the newest.
NewerIndex ==
    IF current_history_pos = -1 \/ current_history_pos + 1 > history_count - 1
    THEN -1
    ELSE current_history_pos + 1

\* The step neither writes nor touches the edit line.
SilentStep ==
    /\ out' = <<>>
    /\ cli_buffer' = cli_buffer
    /\ cli_index' = cli_index

\* One step of the arrow recognizer: ESC and '[' advance it silently, 'A' and
\* 'B' after them move the browse cursor once and echo the loaded entry once,
\* and '[', 'A', 'B' met in NORMAL are appended and echoed like any character.
C26_RecognizerStep ==
    /\ (arrow_state = "NORMAL" /\ last'.ch = 27)
       => (arrow_state' = "ESC_RECEIVED" /\ SilentStep)
    /\ (arrow_state = "ESC_RECEIVED" /\ last'.ch = 91)
       => (arrow_state' = "BRACKET_RECEIVED" /\ SilentStep)
    /\ (arrow_state = "BRACKET_RECEIVED" /\ last'.ch = 65 /\ history_count > 0)
       => /\ arrow_state' = "NORMAL"
          /\ current_history_pos' = OlderIndex
          /\ TypedWord' = cli_history[OlderIndex]
          /\ out' = ClearedLine \o cli_history[OlderIndex]
    /\ (arrow_state = "BRACKET_RECEIVED" /\ last'.ch = 66 /\ current_history_pos # -1)
       => /\ arrow_state' = "NORMAL"
          /\ current_history_pos' = NewerIndex
          /\ IF NewerIndex = -1
             THEN cli_index' = 0 /\ out' = ClearedLine
             ELSE /\ TypedWord' = cli_history[NewerIndex]
                  /\ out' = ClearedLine \o cli_history[NewerIndex]
    /\ (arrow_state = "BRACKET_RECEIVED" /\ last'.ch \in {65, 66})
       => (cli_history' = cli_history /\ history_count' = history_count)
    /\ (arrow_state = "NORMAL" /\ last'.ch \in {91, 65, 66}
           /\ cli_index < CLI_BUFFER_SIZE - 1)
       => /\ arrow_state' = "NORMAL"
          /\ cli_index' = cli_index + 1
          /\ TypedWord' = Append(TypedWord, last'.ch)
          /\ out' = <<last'.ch>>
          /\ current_history_pos' = current_history_pos

\* C26 (arrow recognition): ESC in NORMAL leads to ESC_RECEIVED and '[' there
\* to BRACKET_RECEIVED, both silently; 'A' and 'B' in BRACKET_RECEIVED run
\* HistoryPrev and HistoryNext once and end in NORMAL; '[', 'A' and 'B' met
\* in NORMAL are ordinary characters.
C26_ArrowRecognition == [][C26_RecognizerStep]_vars

\* With ten lines recorded and the cursor at index 8, the three bytes ESC '['
\* 'A' moved it to index 7 and loaded "h".
C26_Witness ==
    /\ left = 0
    /\ last.ch = 65
    /\ last.arrow = "BRACKET_RECEIVED"
    /\ last.pos = 8
    /\ history_count = CLI_HISTORY_SIZE
    /\ current_history_pos = 7
    /\ TypedWord = <<104>>
    /\ arrow_state = "NORMAL"

\* C27 (state after Submit): after every CR or LF, whatever the line, the
\* recognizer state it met and the outcome of the dispatch, the edit line is
\* empty and the recognizer is in NORMAL.
C27_AfterSubmit ==
    (last.op = "byte" /\ last.ch \in {13, 10})
    => /\ cli_index = 0
       /\ TypedWord = <<>>
       /\ arrow_state = "NORMAL"
       /\ ~ub

\* LF met in ESC_RECEIVED submitted the unknown line "he".
C27_Witness ==
    /\ last.ch = 10
    /\ last.arrow = "ESC_RECEIVED"
    /\ last.line = <<104, 101>>
    /\ calls = <<>>
    /\ cli_index = 0
    /\ arrow_state = "NORMAL"

\* A CR or LF that meets an empty edit line.
C28_EmptyStep ==
    (cli_index = 0 /\ last'.op = "byte" /\ last'.ch \in {13, 10})
    => /\ out' = STR_CRLF \o STR_PROMPT
       /\ calls' = <<>>
       /\ events' = <<>>
       /\ cli_history' = cli_history
       /\ history_count' = history_count

\* C28 (empty Submit): a Submit of an empty edit line records nothing in the
\* history, calls no handler, writes no unknown-command text: CR LF and the
\* prompt are all it writes.
C28_EmptySubmit == [][C28_EmptyStep]_vars

\* With ten lines recorded, CR on the empty line wrote CR LF and the prompt
\* and the newest entry is still "j".
C28_Witness ==
    /\ left < MaxInput
    /\ last.ch = 13
    /\ last.idx = 0
    /\ last.count = CLI_HISTORY_SIZE
    /\ history_count = CLI_HISTORY_SIZE
    /\ cli_history[CLI_HISTORY_SIZE - 1] = <<106>>
    /\ out = STR_CRLF \o STR_PROMPT

\* A CR or LF that meets a non-empty line made of spaces only: no handler is
\* called, CR LF and the prompt are all that is written, and the line is the
\* newest history entry afterwards: appended, or already there.
C29_SpacesStep ==
    (/\ cli_index \in 1 .. (CLI_BUFFER_SIZE - 1)
     /\ \A k \in 1 .. cli_index : TypedWord[k] = 32
     /\ last'.op = "byte"
     /\ last'.ch \in {13, 10})
    => /\ calls' = <<>>
       /\ out' = STR_CRLF \o STR_PROMPT
       /\ IF history_count > 0 /\ cli_history[history_count - 1] = TypedWord
          THEN cli_history' = cli_history /\ history_count' = history_count
          ELSE /\ history_count' = IF history_count < CLI_HISTORY_SIZE
                                    THEN history_count + 1 ELSE CLI_HISTORY_SIZE
               /\ cli_history'[history_count' - 1] = TypedWord

\* C29 (spaces-only line): a Submit of a non-empty line of spaces gives no
\* token, so no handler is called and no unknown-command text is written, and
\* the line is still recorded in the history unless it repeats the newest
\* entry.
C29_SpacesOnlyLine == [][C29_SpacesStep]_vars

\* The line of three spaces was submitted and recorded after "  ".
C29_Witness ==
    /\ last.ch = 13
    /\ last.line = <<32, 32, 32>>
    /\ history_count = 2
    /\ cli_history[0] = <<32, 32>>
    /\ cli_history[1] = <<32, 32, 32>>
    /\ calls = <<>>
    /\ out = STR_CRLF \o STR_PROMPT

\* The table entries whose name is, byte for byte, the word.
NamedExactly(word) ==
    {i \in 1 .. Len(cli_commands) : cli_commands[i].name = word}

\* The smallest member of a non-empty set of table indices.
FirstOf(entries) == CHOOSE i \in entries : \A j \in entries : i <= j

\* C30 (command lookup): the first word of a submitted line is compared with
\* the table names for equality of the whole name, case included: of several
\* entries with that name only the first is used (its handler is called once,
\* or nothing is called when it has none), and a word that no entry carries
\* exactly, such as a prefix of a name or a name in another case, calls
\* nothing and is reported as unknown.
C30_ExactLookup ==
    (/\ last.op = "byte"
     /\ last.ch \in {13, 10}
     /\ WordsOf(last.line) # <<>>)
    => LET word == WordsOf(last.line)[1]
           same == NamedExactly(word)
       IN IF same = {}
          THEN /\ calls = <<>>
               /\ out = STR_CRLF \o STR_UNKNOWN \o word \o STR_HINT \o STR_PROMPT
          ELSE /\ out = STR_CRLF \o STR_PROMPT
               /\ IF cli_commands[FirstOf(same)].handler = "NULL"
                  THEN calls = <<>>
                  ELSE /\ Len(calls) = 1
                       /\ calls[1].entry = FirstOf(same)
                       /\ calls[1].handler = cli_commands[FirstOf(same)].handler

\* "ab b" was submitted with two entries named "ab": the first one's handler
\* was called, once.
C30_Witness ==
    /\ cli_commands = LookupCommands
    /\ last.ch = 13
    /\ last.line = <<97, 98, 32, 98>>
    /\ calls = << [entry |-> 1, handler |-> "cli_cmd_first",
                   argv |-> << <<97, 98>>, <<98>> >>] >>

\* C31 (token cap): no handler is ever called with more than CLI_MAX_ARGS
\* tokens; a submitted line with more words than that still has the handler of
\* its first word called, once, with exactly the first CLI_MAX_ARGS words in
\* order, and nothing but CR LF and the prompt is written.
C31_TokenCap ==
    /\ \A k \in 1 .. Len(calls) : Len(calls[k].argv) <= CLI_MAX_ARGS
    /\ (Dispatched /\ Len(WordsOf(last.line)) > CLI_MAX_ARGS)
       => /\ Len(calls) = 1
          /\ calls[1].handler = cli_commands[EntryFor(last.line)].handler
          /\ Len(calls[1].argv) = CLI_MAX_ARGS
          /\ \A k \in 1 .. CLI_MAX_ARGS : calls[1].argv[k] = WordsOf(last.line)[k]
          /\ out = STR_CRLF \o STR_PROMPT

\* "set 1 2 3 4 5 6 7 8 a" (ten words) was submitted: cli_cmd_set got eight
\* tokens, the last of them "7".
C31_Witness ==
    /\ last.ch = 13
    /\ Len(WordsOf(last.line)) = 10
    /\ WordsOf(last.line)[10] = <<97>>
    /\ Len(calls) = 1
    /\ calls[1].handler = "cli_cmd_set"
    /\ Len(calls[1].argv) = 8
    /\ calls[1].argv[8] = <<55>>
    /\ out = STR_CRLF \o STR_PROMPT

\* C32 (browse cursor range): in every reachable state the browse cursor is
\* -1 or the index of a filled history slot, whatever submits, arrows, edits
\* and completions came before.
C32_CursorInRange ==
    /\ history_count \in 0 .. CLI_HISTORY_SIZE
    /\ current_history_pos \in (-1) .. (history_count - 1)

\* While the cursor was at index 8 of a full history the line "ia" was
\* submitted: the oldest entry was evicted and the cursor is -1.
C32_Witness ==
    /\ last.ch = 13
    /\ last.pos = 8
    /\ last.count = CLI_HISTORY_SIZE
    /\ history_count = CLI_HISTORY_SIZE
    /\ cli_history[0] = <<98>>
    /\ cli_history[CLI_HISTORY_SIZE - 1] = <<105, 97>>
    /\ current_history_pos = -1

\* A step leaves the stored entries and their count alone unless it is a
\* Submit that records its line.
C33_FrameStep ==
    (last'.op = "byte"
       /\ ~(last'.ch \in {13, 10} /\ \E k \in 1 .. Len(events') : events'[k].kind = "record"))
    => /\ cli_history' = cli_history
       /\ history_count' = history_count

\* C33 (history is written by Submit only): characters, backspace, Up, Down
\* and completion leave the history entries and their count unchanged, so
\* editing a recalled line does not alter the entry it was loaded from.
C33_HistoryFrame == [][C33_FrameStep]_vars

\* The entry "he" was recalled and completed to "help ": the entry is still
\* "he".
C33_Witness ==
    /\ last.ch = 9
    /\ last.pos = 0
    /\ current_history_pos = 0
    /\ TypedWord = <<104, 101, 108, 112, 32>>
    /\ history_count = 1
    /\ cli_history[0] = <<104, 101>>

\* A CR or LF that meets a non-empty edit line hands exactly its cli_index
\* bytes to the history and to the dispatcher.
C34_WholeLineStep ==
    (/\ cli_index \in 1 .. (CLI_BUFFER_SIZE - 1)
     /\ last'.op = "byte"
     /\ last'.ch \in {13, 10})
    => /\ last'.line = TypedWord
       /\ IF history_count > 0 /\ cli_history[history_count - 1] = TypedWord
          THEN cli_history' = cli_history /\ history_count' = history_count
          ELSE cli_history'[history_count' - 1] = TypedWord

\* C34 (Submit takes the whole edit line): on Submit the line recorded in the
\* history and the line tokenized for dispatch are the cli_index bytes of the
\* edit line, whatever bytes were accepted as characters, the byte 0 included.
C34_SubmitTakesEditLine == [][C34_WholeLineStep]_vars

\* A TAB step on a one-word line that two or more table names start with:
\* every such name still starts with the edit line afterwards.
C35_KeepStep ==
    (/\ last'.ch = 9
     /\ OneWordInNormal
     /\ Cardinality(PrefixedBy(TypedWord)) >= 2)
    => \A i \in PrefixedBy(TypedWord) : StartsWith(cli_commands[i].name, TypedWord')

\* C35 (extension keeps every candidate): after a completion with several
\* matches the edit line is still a prefix of every table name that had the
\* typed word as prefix, also when more names match than MAX_MATCHES.
C35_ExtensionKeepsAll == [][C35_KeepStep]_vars

\* C36 (entry without handler): a submitted line whose first word names a
\* table entry with a NULL handler calls no handler and is not reported as
\* unknown: CR LF and the prompt are all the output, and the edit line is
\* empty afterwards.
C36_NullHandler ==
    (/\ last.op = "byte"
     /\ last.ch \in {13, 10}
     /\ EntryFor(last.line) > 0
     /\ cli_commands[EntryFor(last.line)].handler = "NULL")
    => /\ calls = <<>>
       /\ \A k \in 1 .. Len(events) : events[k].kind # "call"
       /\ out = STR_CRLF \o STR_PROMPT
       /\ cli_index = 0
       /\ cli_buffer = ZeroBuffer

\* "b " was submitted; the first entry named "b" has no handler: nothing was
\* called, the line was recorded, and the prompt follows CR LF.
C36_Witness ==
    /\ cli_commands = LookupCommands
    /\ last.ch = 13
    /\ last.line = <<98, 32>>
    /\ calls = <<>>
    /\ history_count = 1
    /\ cli_history[0] = <<98, 32>>
    /\ out = STR_CRLF \o STR_PROMPT
    /\ cli_index = 0

\* out ends with the prompt.
EndsWithPrompt ==
    /\ Len(out) >= Len(STR_PROMPT)
    /\ SubSeq(out, Len(out) - Len(STR_PROMPT) + 1, Len(out)) = STR_PROMPT

\* A call of cli_init: rejected, it leaves table, I/O functions, edit line,
\* history and recognizer as they were and writes nothing; accepted, it
\* empties the edit line, sets the history count to 0, the cursor to -1, the
\* recognizer to NORMAL, and its output ends with the prompt.
C37_InitStep ==
    (last'.op = "cli_init")
    => IF init_result' = "rejected"
       THEN /\ cli_commands' = cli_commands
            /\ cli_putchar_fn' = cli_putchar_fn
            /\ cli_getchar_fn' = cli_getchar_fn
            /\ cli_buffer' = cli_buffer
            /\ cli_index' = cli_index
            /\ cli_history' = cli_history
            /\ history_count' = history_count
            /\ current_history_pos' = current_history_pos
            /\ arrow_state' = arrow_state
            /\ out' = <<>>
       ELSE /\ init_result' = "accepted"
            /\ cli_index' = 0
            /\ cli_buffer' = ZeroBuffer
            /\ history_count' = 0
            /\ current_history_pos' = -1
            /\ arrow_state' = "NORMAL"
            /\ EndsWithPrompt'

\* C37 (cli_init): a call rejected for its configuration changes no session
\* state and writes nothing, also when a valid configuration was installed
\* before; an accepted call resets edit line, history count, browse cursor
\* and recognizer and ends its output with the prompt.
C37_InitFrame == [][C37_InitStep]_vars

\* A running session (line "he", one history entry, ESC just received) had a
\* cli_init call rejected and is as it was.
C37_Witness ==
    /\ last.op = "cli_init"
    /\ init_result = "rejected"
    /\ cli_getchar_fn # "NULL"
    /\ cli_commands = app_commands_cli_impl
    /\ TypedWord = <<104, 101>>
    /\ history_count = 1
    /\ arrow_state = "ESC_RECEIVED"
    /\ out = <<>>

\* The build of the firmware: the ARM EABI, whose plain char is unsigned.
C38_TargetBuild == ~char_is_signed

\* On the firmware's build a call of cli_uart_getchar_impl on an installed
\* ring returns "none" (-1) exactly when the read index equals the write
\* position it sampled, and otherwise the byte at the read index, advancing
\* the index modulo the size.
C38_ReadStep ==
    (C38_TargetBuild /\ current_pos # -1 /\ current_pos' = -1)
    => /\ (ret' = -1) <=> (cli_last_processed = current_pos)
       /\ (cli_last_processed # current_pos)
          => /\ ret' = rx_buffer[cli_last_processed]
             /\ cli_last_processed' = (cli_last_processed + 1) % cli_dma_buffer_size
       /\ (cli_last_processed = current_pos)
          => cli_last_processed' = cli_last_processed

\* The read index is inside the buffer; on the firmware's build, without an
\* overrun, the values returned so far are the first bytes received, in order,
\* and when the reader has caught up with the writer they are all the bytes
\* received.
C38_RingInvariant ==
    /\ cli_dma_buffer_size > 0 => cli_last_processed \in 0 .. (cli_dma_buffer_size - 1)
    /\ (C38_TargetBuild /\ ~overrun)
       => /\ Len(delivered) <= Len(received)
          /\ delivered = SubSeq(received, 1, Len(delivered))
          /\ (cli_dma_counter # "NULL"
                 /\ cli_last_processed = (cli_dma_buffer_size - dma_counter))
             => delivered = received

\* On a ring of 2 slots the reader has returned 'a' and then 255 and its index
\* has wrapped to slot 0; it is in its next call and has read the counter,
\* and since then the DMA has stored CR in slot 0 and moved the write
\* position on to 1.
C38_Witness ==
    /\ C38_TargetBuild
    /\ cli_dma_buffer_size = 2
    /\ received = <<97, 255, 13>>
    /\ delivered = <<97, 255>>
    /\ ret = 255
    /\ cli_last_processed = 0
    /\ current_pos = 0
    /\ dma_counter = 1
    /\ rx_buffer[0] = 13
    /\ ~overrun

\* C38 (DMA ring reader), on the firmware's build: cli_uart_getchar_impl
\* returns "none" exactly when its read index equals the write position
\* (buffer size minus DMA counter), and otherwise returns the byte at the read
\* index and advances the index modulo the buffer size; the index stays
\* inside the buffer, and while the writer is never a whole buffer ahead
\* every received byte is delivered once and in arrival order.
C38_RingReader == [](C38_RingInvariant) /\ [][C38_ReadStep]_vars

====
